---- MODULE Spec2Model ----
(***************************************************************************)
(* Concept-map synthesis pipeline of concept-map/backend                   *)
(* (concept_map_generation/mind_map.py): chunker, triple extractor, graph  *)
(* unifier, graph construction and renderer, and the pipeline that chains  *)
(* them.  The generative model and the graph-rendering library are the     *)
(* environment: every call to them has a nondeterministic outcome.         *)
(***************************************************************************)
EXTENDS Integers, Sequences, FiniteSets, TLC

VARIABLES
    pc,            \* position of the running function
    input_text,    \* generate_concept_map: input_text / extractor: text / chunker: text
    max_length,    \* split_text_into_chunks: max_length
    layout_style,  \* layout_style argument
    chunks,        \* generate_concept_map: chunks
    ci,            \* index of the next chunk of the for loop
    all_triples,   \* generate_concept_map: all_triples / unifier: triples
    concept_map,   \* the unifier's return value / the renderer's concept_map_json
    result,        \* what the running function returned or raised
    calls,         \* history: every call made to the generative model, in order
    renders,       \* history: every call made to the rendering library, in order
    svg_content,   \* process_drawing_for_concept_map: svg_content
    img,           \* process_drawing_for_concept_map: img
    stages,        \* history: the conversion stages process_svg_for_ocr tried, in order, each <<stage, outcome>>
    ocr_results,   \* process_drawing_for_concept_map: ocr_results
    ocr_return,    \* what process_drawing_for_concept_map returned
    maps,          \* the rows of the table concept_maps, in the order of their ids
    log            \* history: every request to the concept-map routes, with its response

ocr_vars == <<svg_content, img, stages, ocr_results, ocr_return>>

crud_vars == <<maps, log>>

vars == <<pc, input_text, max_length, layout_style, chunks, ci, all_triples,
          concept_map, result, calls, renders, ocr_vars, crud_vars>>

(***************************************************************************)
(* Strings.  A string is a sequence of runs <<s, n>>: the piece s repeated *)
(* n times.  Pieces of texts that the code measures or splits are single   *)
(* characters; a literal of the source is one opaque piece.  Strings are   *)
(* kept normalised (no empty run, no two adjacent runs of one piece), so   *)
(* that equal strings are equal values.                                    *)
(***************************************************************************)
Lit(s) == << <<s, 1>> >>

EmptyStr == <<>>

Whitespace == {" ", "\n"}

SentenceEnd == {".", "!", "?"}

RECURSIVE Norm(_)
Norm(t) ==
    IF t = <<>> THEN <<>>
    ELSE LET r == Head(t)
             rest == Norm(Tail(t))
         IN  IF r[2] = 0 THEN rest
             ELSE IF rest # <<>> /\ rest[1][1] = r[1]
                  THEN << <<r[1], r[2] + rest[1][2]>> >> \o Tail(rest)
                  ELSE <<r>> \o rest

Concat(a, b) == Norm(a \o b)

\* len(t)
RECURSIVE TLen(_)
TLen(t) == IF t = <<>> THEN 0 ELSE Len(Head(t)[1]) * Head(t)[2] + TLen(Tail(t))

RECURSIVE LStrip(_)
LStrip(t) == IF t # <<>> /\ Head(t)[1] \in Whitespace THEN LStrip(Tail(t)) ELSE t

RECURSIVE RStrip(_)
RStrip(t) ==
    IF t # <<>> /\ t[Len(t)][1] \in Whitespace
    THEN RStrip(SubSeq(t, 1, Len(t) - 1))
    ELSE t

\* t.strip()
Strip(t) == RStrip(LStrip(t))

\* t.split(): the maximal pieces free of white space, none of them empty
RECURSIVE SplitWS(_, _, _)
SplitWS(t, cur, acc) ==
    IF t = <<>> THEN (IF cur = <<>> THEN acc ELSE Append(acc, cur))
    ELSE IF Head(t)[1] \in Whitespace
         THEN SplitWS(Tail(t), <<>>, IF cur = <<>> THEN acc ELSE Append(acc, cur))
         ELSE SplitWS(Tail(t), Append(cur, Head(t)), acc)

Words(t) == SplitWS(t, <<>>, <<>>)

\* t.split(c) for a one-character separator c: empty pieces are kept
RECURSIVE SplitOn(_, _, _, _)
SplitOn(t, c, cur, acc) ==
    IF t = <<>> THEN Append(acc, cur)
    ELSE LET r == Head(t)
         IN  IF r[1] = c
             THEN SplitOn(Tail(t), c, <<>>,
                          Append(acc, cur) \o [i \in 1..(r[2] - 1) |-> <<>>])
             ELSE SplitOn(Tail(t), c, Append(cur, r), acc)

\* sep.join(ws)
RECURSIVE Join(_, _)
Join(ws, sep) ==
    IF ws = <<>> THEN <<>>
    ELSE IF Len(ws) = 1 THEN ws[1]
         ELSE Concat(Concat(ws[1], sep), Join(Tail(ws), sep))

\* t[:k]
RECURSIVE Take(_, _)
Take(t, k) ==
    IF t = <<>> \/ k <= 0 THEN <<>>
    ELSE LET r == Head(t)
         IN  IF r[2] >= k THEN << <<r[1], k>> >>
             ELSE <<r>> \o Take(Tail(t), k - r[2])

\* c in t
Contains(t, c) == \E i \in DOMAIN t : t[i][1] = c

\* xs[:k] of a list
FirstN(xs, k) == SubSeq(xs, 1, IF Len(xs) < k THEN Len(xs) ELSE k)

(***************************************************************************)
(* Program constants.                                                      *)
(***************************************************************************)
DefaultMaxLength == 12000

ChunkThreshold == 12000

MinInputChars == 5

MinChunkChars == 10

TopicWords == 3

TopicChars == 30

TitleChars == 50

(***************************************************************************)
(* Chunker: split_text_into_chunks.                                        *)
(***************************************************************************)
\* re.split(r'(?<=[.!?]) +', text): a run of spaces that follows a sentence
\* end separates two sentences; prev is the character before the run.
RECURSIVE SplitSentences(_, _, _, _)
SplitSentences(t, prev, cur, acc) ==
    IF t = <<>> THEN Append(acc, cur)
    ELSE LET r == Head(t)
         IN  IF r[1] = " " /\ prev \in SentenceEnd
             THEN SplitSentences(Tail(t), " ", <<>>, Append(acc, cur))
             ELSE SplitSentences(Tail(t), r[1], Append(cur, r), acc)

\* the for loop over the sentences
RECURSIVE ChunkLoop(_, _, _, _)
ChunkLoop(sentences, current_chunk, chunks_, maxlen) ==
    IF sentences = <<>> THEN [current_chunk |-> current_chunk, chunks |-> chunks_]
    ELSE LET sentence == Head(sentences)
         IN  IF TLen(current_chunk) + TLen(sentence) > maxlen
             THEN ChunkLoop(Tail(sentences), sentence,
                            Append(chunks_, Strip(current_chunk)), maxlen)
             ELSE ChunkLoop(Tail(sentences),
                            Concat(Concat(current_chunk, Lit(" ")), sentence),
                            chunks_, maxlen)

\* mutant: the chunk in progress at the end of the loop is not appended
split_text_into_chunks_NoTail(text, maxlen) ==
    ChunkLoop(SplitSentences(Norm(text), "", <<>>, <<>>), <<>>, <<>>, maxlen).chunks

split_text_into_chunks(text, maxlen) ==
    LET r == ChunkLoop(SplitSentences(Norm(text), "", <<>>, <<>>), <<>>, <<>>, maxlen)
    IN  IF r.current_chunk # <<>>
        THEN Append(r.chunks, Strip(r.current_chunk))
        ELSE r.chunks

(***************************************************************************)
(* Generative model.  A call either raises or returns a text.  The         *)
(* extractor reads the text as characters, the unifier as JSON tokens.     *)
(***************************************************************************)
Raises == [kind |-> "raise", text |-> <<>>]

Returns(t) == [kind |-> "text", text |-> t]

(***************************************************************************)
(* Triple extractor: extract_triples_from_text.                            *)
(***************************************************************************)
Triple(s, r, o) == <<s, r, o>>

\* the main topic of the two fallback triples
MainTopic(text) ==
    LET main_topic == FirstN(Words(Strip(text)), TopicWords)
    IN  IF Len(main_topic) <= TopicWords
        THEN Join(main_topic, Lit(" "))
        ELSE Take(Strip(text), TopicChars)

\* mutant: a line of three fields or more gives a triple of its first three
RECURSIVE ParseLines_AtLeastThree(_, _)
ParseLines_AtLeastThree(lines, triples) ==
    IF lines = <<>> THEN triples
    ELSE LET line == Strip(Head(lines))
             parts == SplitOn(line, "|", <<>>, <<>>)
         IN  IF Contains(line, "|") /\ Len(parts) >= 3
             THEN ParseLines_AtLeastThree(Tail(lines),
                    Append(triples,
                           Triple(Strip(parts[1]), Strip(parts[2]), Strip(parts[3]))))
             ELSE ParseLines_AtLeastThree(Tail(lines), triples)

\* the lines of the response in triple notation
RECURSIVE ParseLines(_, _)
ParseLines(lines, triples) ==
    IF lines = <<>> THEN triples
    ELSE LET line == Strip(Head(lines))
             parts == SplitOn(line, "|", <<>>, <<>>)
         IN  IF Contains(line, "|") /\ Len(parts) = 3
             THEN ParseLines(Tail(lines),
                    Append(triples,
                           Triple(Strip(parts[1]), Strip(parts[2]), Strip(parts[3]))))
             ELSE ParseLines(Tail(lines), triples)

ParseTriples(response_text) ==
    ParseLines(SplitOn(Strip(response_text), "\n", <<>>, <<>>), <<>>)

\* mutant: the length is taken without strip()
TooShort_NoStrip(text) == text = <<>> \/ TLen(text) < MinChunkChars

\* The guard of line 72: no model call is made
TooShort(text) == text = <<>> \/ TLen(Strip(text)) < MinChunkChars

ExtractFallbackNoTriples(text) ==
    << Triple(MainTopic(text), Lit("is related to"), Lit("the topic of interest")) >>

\* mutant: the except branch returns no triple
ExtractFallbackRaised_Empty(text) == <<>>

\* lines 136-143: the except branch
ExtractFallbackRaised(text) ==
    IF Strip(text) # <<>>
    THEN << Triple(MainTopic(text), Lit("is"), Lit("the main concept")) >>
    ELSE << Triple(Lit("Error"), Lit("occurred during"), Lit("triple extraction")) >>

\* outcome: what model.generate_content does if it is called
extract_triples_from_text(text, outcome) ==
    IF TooShort(text)
    THEN << Triple(Lit("Concept"), Lit("is"), Lit("Empty or too short")) >>
    ELSE IF outcome.kind = "raise"
         THEN ExtractFallbackRaised(text)
         ELSE LET triples == ParseTriples(outcome.text)
              IN  IF triples = <<>> /\ Strip(text) # <<>>
                  THEN ExtractFallbackNoTriples(text)
                  ELSE triples

\* the model calls extract_triples_from_text makes
ExtractCalls(text) == IF TooShort(text) THEN 0 ELSE 1

(***************************************************************************)
(* Ordered dictionaries (Python dict): a sequence of <<key, value>> pairs  *)
(* with distinct keys, in insertion order.                                 *)
(***************************************************************************)
\* k in d
HasKey(d, k) == \E i \in DOMAIN d : d[i][1] = k

\* d[k]
Get(d, k) == d[CHOOSE i \in DOMAIN d : d[i][1] = k][2]

\* d[k] = v
Put(d, k, v) ==
    IF HasKey(d, k)
    THEN [i \in DOMAIN d |-> IF d[i][1] = k THEN <<k, v>> ELSE d[i]]
    ELSE Append(d, <<k, v>>)

(***************************************************************************)
(* JSON values, as json.loads returns them: <<"obj", dict>>,               *)
(* <<"arr", list>>, <<"str", string>>, <<"num", <<>>>> (a number not 0).   *)
(***************************************************************************)
JObj(d) == <<"obj", d>>

JArr(xs) == <<"arr", xs>>

JStr(s) == <<"str", s>>

JNum == <<"num", <<>> >>

\* isinstance(v, dict), isinstance(v, list), isinstance(v, str)
IsDict(v) == v[1] = "obj"

IsList(v) == v[1] = "arr"

IsStr(v) == v[1] = "str"

(***************************************************************************)
(* The unifier's response text, as a sequence of JSON tokens               *)
(* <<kind, string>>: the punctuation { } [ ] , : , "str" (a string         *)
(* literal, with its content), "num", "ws" (white space), the Markdown     *)
(* fences "fence_json" (```json) and "fence" (```), and "junk" (any other *)
(* text).                                                                  *)
(***************************************************************************)
Tok(k) == <<k, <<>> >>

TokStr(s) == <<"str", s>>

RECURSIVE SkipWs(_)
SkipWs(toks) == IF toks # <<>> /\ Head(toks)[1] = "ws" THEN SkipWs(Tail(toks)) ELSE toks

RECURSIVE SkipWsEnd(_)
SkipWsEnd(toks) ==
    IF toks # <<>> /\ toks[Len(toks)][1] = "ws"
    THEN SkipWsEnd(SubSeq(toks, 1, Len(toks) - 1))
    ELSE toks

\* raw.strip()
StripToks(toks) == SkipWsEnd(SkipWs(toks))

\* raw.replace(fence, "")
RemoveTok(toks, kind) == SelectSeq(toks, LAMBDA t : t[1] # kind)

\* the index of the first token after index i that is not white space, 0 if none
NextNonWs(toks, i) ==
    IF \E j \in (i + 1)..Len(toks) : toks[j][1] # "ws"
    THEN CHOOSE j \in (i + 1)..Len(toks) :
            /\ toks[j][1] # "ws"
            /\ \A k \in (i + 1)..(j - 1) : toks[k][1] = "ws"
    ELSE 0

\* token i starts a match of the pattern: a comma, white space, the closer
CommaMatch(toks, i, closer) ==
    /\ toks[i][1] = ","
    /\ NextNonWs(toks, i) # 0
    /\ toks[NextNonWs(toks, i)][1] = closer

\* re.sub(r",\s*]", "]", raw) and re.sub(r",\s*}", "}", raw): every match (no two
\* overlap: a match holds one comma, its first character) is replaced by the
\* closer alone, so its comma and white space go
DropCommaBefore(toks, closer) ==
    LET inMatch(i) ==
            \/ CommaMatch(toks, i, closer)
            \/ /\ toks[i][1] = "ws"
               /\ \E k \in 1..(i - 1) :
                     /\ CommaMatch(toks, k, closer)
                     /\ i < NextNonWs(toks, k)
        indexed == [i \in DOMAIN toks |-> <<i, toks[i]>>]
        kept == SelectSeq(indexed, LAMBDA x : ~inMatch(x[1]))
    IN  [i \in DOMAIN kept |-> kept[i][2]]

\* lines 200-207: strip, remove the fences, strip, repair the trailing commas
CleanResponse(toks) ==
    LET unfenced == StripToks(RemoveTok(RemoveTok(StripToks(toks), "fence_json"), "fence"))
    IN  DropCommaBefore(DropCommaBefore(unfenced, "]"), "}")

(***************************************************************************)
(* json.loads over the tokens.  ok = FALSE is json.JSONDecodeError.         *)
(***************************************************************************)
ParseFail == [ok |-> FALSE, val |-> JNum, rest |-> <<>>]

ParseOk(v, rest) == [ok |-> TRUE, val |-> v, rest |-> rest]

RECURSIVE ParseValue(_), ParseMembers(_, _), ParseElements(_, _)
ParseValue(toks0) ==
    LET toks == SkipWs(toks0)
    IN  IF toks = <<>> THEN ParseFail
        ELSE LET t == Head(toks)
                 inner == SkipWs(Tail(toks))
             IN  CASE t[1] = "str" -> ParseOk(JStr(t[2]), Tail(toks))
                   [] t[1] = "num" -> ParseOk(JNum, Tail(toks))
                   [] t[1] = "{" ->
                        IF inner # <<>> /\ inner[1][1] = "}"
                        THEN ParseOk(JObj(<<>>), Tail(inner))
                        ELSE ParseMembers(inner, <<>>)
                   [] t[1] = "[" ->
                        IF inner # <<>> /\ inner[1][1] = "]"
                        THEN ParseOk(JArr(<<>>), Tail(inner))
                        ELSE ParseElements(inner, <<>>)
                   [] OTHER -> ParseFail

\* "key": value pairs up to the closing brace; a repeated key keeps its place and
\* takes the last value
ParseMembers(toks0, d) ==
    LET toks == SkipWs(toks0)
    IN  IF toks = <<>> \/ Head(toks)[1] # "str" THEN ParseFail
        ELSE LET colon == SkipWs(Tail(toks))
             IN  IF colon = <<>> \/ colon[1][1] # ":" THEN ParseFail
                 ELSE LET v == ParseValue(Tail(colon))
                          next == SkipWs(v.rest)
                      IN  IF ~v.ok \/ next = <<>> THEN ParseFail
                          ELSE IF next[1][1] = "}"
                               THEN ParseOk(JObj(Put(d, Head(toks)[2], v.val)), Tail(next))
                               ELSE IF next[1][1] = ","
                                    THEN ParseMembers(Tail(next), Put(d, Head(toks)[2], v.val))
                                    ELSE ParseFail

ParseElements(toks0, xs) ==
    LET v == ParseValue(toks0)
        next == SkipWs(v.rest)
    IN  IF ~v.ok \/ next = <<>> THEN ParseFail
        ELSE IF next[1][1] = "]"
             THEN ParseOk(JArr(Append(xs, v.val)), Tail(next))
             ELSE IF next[1][1] = ","
                  THEN ParseElements(Tail(next), Append(xs, v.val))
                  ELSE ParseFail

\* json.loads(raw): one value and nothing but white space after it
JsonLoads(toks) ==
    LET v == ParseValue(toks)
    IN  IF v.ok /\ SkipWs(v.rest) = <<>> THEN v ELSE ParseFail

(***************************************************************************)
(* Graph unifier: generate_concept_map_json.                               *)
(***************************************************************************)
ConceptMapsKey == Lit("concept_maps")

\* {"concept_maps": [entries]}
Graph(entries) == JObj(<< <<ConceptMapsKey, JArr(entries)>> >>)

\* {name: relations}
Entry(name, relations) == JObj(<< <<name, relations>> >>)

\* [JStr of each name]
StrList(names) == [i \in DOMAIN names |-> JStr(names[i])]

\* mutant: an error graph of one concept without relations
ErrorGraph_OneNode == Graph(<< Entry(Lit("Error"), JObj(<<>>)) >>)

\* lines 274-282: the value returned when the call raised
ErrorGraph ==
    Graph(<< Entry(Lit("Error"),
                   JObj(<< <<Lit("suggests"),
                             JArr(<<JStr(Lit("Please try again"))>>)>> >>)) >>)

\* mutant: the isinstance(value, dict) test is left out
Salvage_All(d) == [i \in DOMAIN d |-> Entry(d[i][1], d[i][2])]

\* lines 220-225: one entry per top-level item whose value is a dict
RECURSIVE Salvage(_)
Salvage(d) ==
    IF d = <<>> THEN <<>>
    ELSE (IF IsDict(Head(d)[2]) THEN <<Entry(Head(d)[1], Head(d)[2])>> ELSE <<>>)
         \o Salvage(Tail(d))

\* lines 231-239
MinimalFallback(triples) ==
    Graph(<< Entry(Lit("Concept"),
                   JObj(<< <<Lit("contains"),
                             JStr(IF triples # <<>> THEN triples[1][3]
                                  ELSE Lit("information"))>> >>)) >>)

\* lines 214-239: the parsed value is not a dict with the key 'concept_maps'
Restructure(v, triples) ==
    IF IsDict(v) /\ Len(v[2]) > 0 /\ Salvage(v[2]) # <<>>
    THEN Graph(Salvage(v[2]))
    ELSE MinimalFallback(triples)

\* mutant: subject_groups[s][r] = [o]
AddTriple_Overwrite(subject_groups, t) ==
    LET relations == IF HasKey(subject_groups, t[1]) THEN Get(subject_groups, t[1]) ELSE <<>>
    IN  Put(subject_groups, t[1], Put(relations, t[2], <<t[3]>>))

\* mutant: a new group for every triple, the subject is not looked up
AddTriple_NoMerge(subject_groups, t) ==
    Append(subject_groups, <<t[1], << <<t[2], <<t[3]>> >> >> >>)

\* lines 254-260, the body of the loop: subject_groups[s][r].append(o)
AddTriple(subject_groups, t) ==
    LET s == t[1]
        r == t[2]
        o == t[3]
        relations == IF HasKey(subject_groups, s) THEN Get(subject_groups, s) ELSE <<>>
        targets == IF HasKey(relations, r) THEN Get(relations, r) ELSE <<>>
    IN  Put(subject_groups, s, Put(relations, r, Append(targets, o)))

\* mutant: a triple whose object is already a subject is dropped, so that no
\* relation leads back to an earlier concept
RECURSIVE GroupBySubject_BreakCycles(_, _)
GroupBySubject_BreakCycles(triples, subject_groups) ==
    IF triples = <<>> THEN subject_groups
    ELSE GroupBySubject_BreakCycles(Tail(triples),
            IF HasKey(subject_groups, Head(triples)[3]) THEN subject_groups
            ELSE AddTriple(subject_groups, Head(triples)))

\* lines 252-260: the loop over the triples, in order
RECURSIVE GroupBySubject(_, _)
GroupBySubject(triples, subject_groups) ==
    IF triples = <<>> THEN subject_groups
    ELSE GroupBySubject(Tail(triples), AddTriple(subject_groups, Head(triples)))

\* lines 263-265: one entry per subject
GroupEntries(subject_groups) ==
    [i \in DOMAIN subject_groups |->
        Entry(subject_groups[i][1],
              JObj([j \in DOMAIN subject_groups[i][2] |->
                       <<subject_groups[i][2][j][1],
                         JArr(StrList(subject_groups[i][2][j][2]))>>]))]

\* lines 243-269: the response is not JSON
TripleFallback(triples) ==
    IF triples # <<>>
    THEN Graph(GroupEntries(GroupBySubject(triples, <<>>)))
    ELSE Graph(<< Entry(Lit("Error"),
                        JObj(<< <<Lit("occurred during"),
                                  JArr(<<JStr(Lit("concept map generation"))>>)>> >>)) >>)

\* mutant: only isinstance(concept_map, dict) is tested
HasExpectedKey_DictOnly(v) == IsDict(v)

\* line 214: the parsed value has the expected key
HasExpectedKey(v) == IsDict(v) /\ HasKey(v[2], ConceptMapsKey)

\* outcome: what model.generate_content does; its text is a token sequence
generate_concept_map_json(triples, outcome) ==
    IF outcome.kind = "raise" THEN ErrorGraph
    ELSE LET parsed == JsonLoads(CleanResponse(outcome.text))
         IN  IF ~parsed.ok THEN TripleFallback(triples)
             ELSE IF ~HasExpectedKey(parsed.val) THEN Restructure(parsed.val, triples)
                  ELSE parsed.val

(***************************************************************************)
(* Graph construction: add_node, build_graph.  The Digraph is the record   *)
(* of what was added to it: the layout attributes, the nodes               *)
(* [id, label, style], the edges <<tail, head, label>> and the rank="same" *)
(* subgraphs.  A node id f"n{k}" is the string "n" followed by k.          *)
(***************************************************************************)
NodeId(k) == Lit("n" \o ToString(k))

\* mutant: a style that is not known gets the attributes of "hierarchical"
Digraph_DefaultHierarchical(style) ==
    [layout |-> IF style = "radial" THEN "radial"
                ELSE IF style = "network" THEN "network"
                ELSE "hierarchical",
     nodes |-> <<>>, edges |-> <<>>, same_rank |-> <<>>]

\* lines 365-393: graphviz.Digraph(format="svg") and its graph attributes
Digraph(style) ==
    [layout |-> IF style = "hierarchical" THEN "hierarchical"
                ELSE IF style = "radial" THEN "radial"
                ELSE "network",
     nodes |-> <<>>, edges |-> <<>>, same_rank |-> <<>>]

\* lines 395-397: the state of build_graph before its first pass
Builder(style) ==
    [dot |-> Digraph(style), added_nodes |-> {}, node_id_map |-> <<>>,
     next_node_id |-> 1, raised |-> FALSE]

\* lines 346-349, for a string node id: dot.node(id, label=label or id, **attrs)
\* unless the id is in added_nodes
add_node(b, node_id, label, node_attrs) ==
    IF node_id \in b.added_nodes THEN b
    ELSE [b EXCEPT
            !.dot.nodes = Append(@, [id |-> node_id,
                                     label |-> IF label = EmptyStr THEN node_id ELSE label,
                                     style |-> node_attrs]),
            !.added_nodes = @ \cup {node_id}]

\* mutant: every child gets a node of its own, node_id_map is not consulted
RECURSIVE AddChildren_NoLookup(_, _, _)
AddChildren_NoLookup(b, children, child_ids) ==
    IF children = <<>> \/ b.raised THEN [b |-> b, child_ids |-> child_ids]
    ELSE LET child == Head(children)
         IN  IF ~IsStr(child)
             THEN [b |-> [b EXCEPT !.raised = TRUE], child_ids |-> child_ids]
             ELSE LET child_id == NodeId(b.next_node_id)
                      b1 == [b EXCEPT !.next_node_id = @ + 1,
                                      !.node_id_map = Put(@, child[2], child_id)]
                  IN  AddChildren_NoLookup(add_node(b1, child_id, child[2], "child"),
                                           Tail(children), Append(child_ids, child_id))

\* lines 428-447: a child that is not hashable (a list, a dict) raises TypeError
\* at the lookup in node_id_map; any other child that is not a string (a
\* number) raises TypeError in dot.node, which quotes its label as a string
RECURSIVE AddChildren(_, _, _)
AddChildren(b, children, child_ids) ==
    IF children = <<>> \/ b.raised THEN [b |-> b, child_ids |-> child_ids]
    ELSE LET child == Head(children)
         IN  IF ~IsStr(child)
             THEN [b |-> [b EXCEPT !.raised = TRUE], child_ids |-> child_ids]
             ELSE IF ~HasKey(b.node_id_map, child[2])
                  THEN LET child_id == NodeId(b.next_node_id)
                           b1 == [b EXCEPT !.next_node_id = @ + 1,
                                           !.node_id_map = Put(@, child[2], child_id)]
                       IN  AddChildren(add_node(b1, child_id, child[2], "child"),
                                       Tail(children), Append(child_ids, child_id))
                  ELSE AddChildren(b, Tail(children),
                                   Append(child_ids, Get(b.node_id_map, child[2])))

\* lines 423-472: the relations of one parent
RECURSIVE AddRelations(_, _, _)
AddRelations(b, parent_id, relations) ==
    IF relations = <<>> \/ b.raised THEN b
    ELSE LET relation == Head(relations)[1]
             children == Head(relations)[2]
             c == IF IsList(children) THEN AddChildren(b, children[2], <<>>)
                  ELSE [b |-> b, child_ids |-> <<>>]
             ranked == IF Len(c.child_ids) > 1
                       THEN [c.b EXCEPT !.dot.same_rank = Append(@, c.child_ids)]
                       ELSE c.b
             linked == [ranked EXCEPT !.dot.edges =
                           @ \o [i \in DOMAIN c.child_ids |->
                                    <<parent_id, c.child_ids[i], relation>>]]
         IN  IF c.b.raised THEN c.b
             ELSE AddRelations(linked, parent_id, Tail(relations))

\* lines 401-472: the items of one entry
RECURSIVE AddParents(_, _)
AddParents(b, items) ==
    IF items = <<>> \/ b.raised THEN b
    ELSE LET parent == Head(items)[1]
             relations == Head(items)[2]
             known == HasKey(b.node_id_map, parent)
             parent_id == IF known THEN Get(b.node_id_map, parent)
                          ELSE NodeId(b.next_node_id)
             b1 == IF known THEN b
                   ELSE add_node([b EXCEPT !.next_node_id = @ + 1,
                                           !.node_id_map = Put(@, parent, parent_id)],
                                 parent_id, parent, "root")
             b2 == IF IsDict(relations) THEN AddRelations(b1, parent_id, relations[2])
                   ELSE b1
         IN  AddParents(b2, Tail(items))

\* line 400: an entry that is not a dict has no items(): AttributeError
RECURSIVE AddEntries(_, _)
AddEntries(b, concept_data) ==
    IF concept_data = <<>> \/ b.raised THEN b
    ELSE IF ~IsDict(Head(concept_data)) THEN [b EXCEPT !.raised = TRUE]
         ELSE AddEntries(AddParents(b, Head(concept_data)[2]), Tail(concept_data))

\* returns [raised, dot]
build_graph(concept_data, style) ==
    LET b == AddEntries(Builder(style), concept_data)
    IN  [raised |-> b.raised, dot |-> b.dot]

(***************************************************************************)
(* Renderer: generate_concept_map_svg.  dot.pipe() is the rendering        *)
(* library: a call returns the SVG of the graph ("ok"), returns no bytes   *)
(* ("empty") or raises ("raise").                                          *)
(***************************************************************************)
PipeOutcomes == {"ok", "empty", "raise"}

JNull == <<"null", <<>> >>

NoDot == Digraph("none")

\* base64.b64encode(svg_data).decode('utf-8'): empty for no bytes
Image(dot) == [kind |-> "return", empty |-> FALSE, dot |-> dot, exc |-> ""]

EmptyImage == [kind |-> "return", empty |-> TRUE, dot |-> NoDot, exc |-> ""]

Raised(exc) == [kind |-> "raise", empty |-> TRUE, dot |-> NoDot, exc |-> exc]

\* mutant: the node of the error diagram does not carry the message
ErrorDot_NoMessage(message) ==
    [layout |-> "error",
     nodes |-> << [id |-> Lit("Error"), label |-> Lit("Error"), style |-> "error"] >>,
     edges |-> <<>>, same_rank |-> <<>>]

\* lines 518-520: the error diagram, one node labelled with the message
ErrorDot(message) ==
    [layout |-> "error",
     nodes |-> << [id |-> Lit("Error"),
                   label |-> Concat(Lit("Error: "), Lit(message)),
                   style |-> "error"] >>,
     edges |-> <<>>, same_rank |-> <<>>]

\* dot.pipe(): the bytes of the SVG of the graph, here the graph itself; none
\* when the library returns nothing
PipeBytes(dot, p) == IF p = "ok" THEN <<dot>> ELSE <<>>

\* base64.b64encode(svg_data).decode('utf-8')
B64(svg_data) == IF svg_data = <<>> THEN EmptyImage ELSE Image(svg_data[1])

\* mutant: the except branch raises again instead of drawing the error diagram
ErrorImage_Reraise(message, p2) == Raised("ValueError")

\* lines 516-524: the except branch; p2 is the outcome of its dot.pipe()
ErrorImage(message, p2) ==
    IF p2 = "raise" THEN Raised("ValueError")
    ELSE B64(PipeBytes(ErrorDot(message), p2))

\* mutant: the test of line 508 for an empty output is left out
SvgError_NoEmptyCheck(concept_map_json, style, p1) ==
    IF ~IsDict(concept_map_json) \/ concept_map_json[2] = <<>>
    THEN "Invalid concept map data format"
    ELSE IF ~HasKey(concept_map_json[2], ConceptMapsKey)
         THEN "Missing 'concept_maps' key in the data"
         ELSE LET concept_data == Get(concept_map_json[2], ConceptMapsKey)
              IN  IF ~IsList(concept_data) \/ concept_data[2] = <<>>
                  THEN "'concept_maps' must be a non-empty list"
                  ELSE IF build_graph(concept_data[2], style).raised
                       THEN "build_graph raised"
                       ELSE IF p1 = "raise" THEN "pipe raised"
                            ELSE ""

\* lines 489-509: the message of the exception raised inside the try, "" if
\* none; p1 is the outcome of the dot.pipe() of the graph
SvgError(concept_map_json, style, p1) ==
    IF ~IsDict(concept_map_json) \/ concept_map_json[2] = <<>>
    THEN "Invalid concept map data format"
    ELSE IF ~HasKey(concept_map_json[2], ConceptMapsKey)
         THEN "Missing 'concept_maps' key in the data"
         ELSE LET concept_data == Get(concept_map_json[2], ConceptMapsKey)
              IN  IF ~IsList(concept_data) \/ concept_data[2] = <<>>
                  THEN "'concept_maps' must be a non-empty list"
                  ELSE IF build_graph(concept_data[2], style).raised
                       THEN "build_graph raised"
                       ELSE IF p1 = "raise" THEN "pipe raised"
                            ELSE IF p1 = "empty" THEN "Empty SVG output"
                                 ELSE ""

\* whether the try block reaches dot.pipe() (line 507)
ReachesPipe(concept_map_json, style) ==
    SvgError(concept_map_json, style, "ok") = ""

\* the layout_style argument left out by the caller
MissingStyle == "(missing)"

\* line 476: layout_style: str = "hierarchical"
StyleOrDefault(style) == IF style = MissingStyle THEN "hierarchical" ELSE style

\* p1, p2: the outcomes of the two dot.pipe() calls, if they are made
generate_concept_map_svg(concept_map_json, style, p1, p2) ==
    LET e == SvgError(concept_map_json, style, p1)
    IN  IF e = ""
        THEN B64(PipeBytes(build_graph(Get(concept_map_json[2], ConceptMapsKey)[2],
                                       style).dot, p1))
        ELSE ErrorImage(e, p2)

\* the calls of dot.pipe() that generate_concept_map_svg makes, in order
SvgPipes(concept_map_json, style, p1, p2) ==
    (IF ReachesPipe(concept_map_json, style) THEN << <<"graph", p1>> >> ELSE <<>>)
    \o (IF SvgError(concept_map_json, style, p1) # "" THEN << <<"error", p2>> >> ELSE <<>>)

(***************************************************************************)
(* OCR front-end (ocr_concept_map.py).  A drawing is a string, here the    *)
(* sequence of its pieces: a data URL is "data:", the media type,          *)
(* ";base64", "," and the payload; raw content is its markup.  A payload   *)
(* is named by what base64 decoding makes of it.  The converters           *)
(* (CairoSVG, rsvg-convert) and the drawing of the blank image are the     *)
(* environment: conv gives the outcome of each if it is tried.             *)
(***************************************************************************)
\* s.startswith(prefix)
StartsWith(t, prefix) == Len(t) >= Len(prefix) /\ SubSeq(t, 1, Len(prefix)) = prefix

PngPrefix == <<"data:", "image/png", ";base64", ",">>

\* "," in s
HasComma(t) == \E i \in DOMAIN t : t[i] = ","

FirstComma(t) == CHOOSE i \in DOMAIN t : t[i] = "," /\ \A j \in 1..(i - 1) : t[j] # ","

\* header, encoded = s.split(",", 1)
Header(t) == SubSeq(t, 1, FirstComma(t) - 1)

Encoded(t) == SubSeq(t, FirstComma(t) + 1, Len(t))

\* s.strip() of raw content
RECURSIVE StripPieces(_)
StripPieces(t) ==
    IF t # <<>> /\ Head(t) \in Whitespace THEN StripPieces(Tail(t))
    ELSE IF t # <<>> /\ t[Len(t)] \in Whitespace THEN StripPieces(SubSeq(t, 1, Len(t) - 1))
    ELSE t

\* base64.b64decode(encoded): the bytes, "raise" for binascii.Error
B64Decode(encoded) ==
    IF encoded = <<"b64_png">> THEN "png_bytes"
    ELSE IF encoded = <<"b64_svg">> THEN "svg_bytes"
    ELSE IF encoded = <<"not_b64">> THEN "raise"
    ELSE "junk_bytes"

\* lines 39-41 and 446-448: the payload of a PNG data URL decodes and opens
LoadPng(t) == B64Decode(Encoded(t)) = "png_bytes"

ImageOk(image, tried) == [kind |-> "image", img |-> image, stages |-> tried]

ImageRaise(tried) == [kind |-> "raise", img |-> "none", stages |-> tried]

\* mutant: raw content is taken for SVG without the test of line 82
SvgBytes_NoSvgTest(t) ==
    IF StartsWith(t, <<"data:">>)
    THEN IF ~HasComma(t) THEN "raise"
         ELSE IF ~StartsWith(Header(t), <<"data:", "image/svg+xml">>) THEN "raise"
         ELSE B64Decode(Encoded(t))
    ELSE IF StartsWith(t, <<"blob:">>) THEN "raise"
    ELSE IF StripPieces(t) = <<"<svg", "markup">> THEN "svg_bytes"
    ELSE "junk_bytes"

\* lines 56-87: the bytes of the SVG, "raise" for ValueError
SvgBytes(t) ==
    IF StartsWith(t, <<"data:">>)
    THEN IF ~HasComma(t) THEN "raise"
         ELSE IF ~StartsWith(Header(t), <<"data:", "image/svg+xml">>) THEN "raise"
         ELSE B64Decode(Encoded(t))
    ELSE IF StartsWith(t, <<"blob:">>) THEN "raise"
    ELSE IF ~StartsWith(StripPieces(t), <<"<svg">>) THEN "raise"
    ELSE IF StripPieces(t) = <<"<svg", "markup">> THEN "svg_bytes"
    ELSE "junk_bytes"

\* lines 89-112: cairosvg.svg2png and Image.open; "missing" is ImportError
CairoStage(svg_bytes, conv) ==
    <<"cairosvg", IF conv.cairo = "ok" /\ svg_bytes # "svg_bytes" THEN "raise" ELSE conv.cairo>>

\* lines 114-152: rsvg-convert on a temporary file and Image.open
RsvgStage(svg_bytes, conv) ==
    <<"rsvg-convert", IF svg_bytes = "svg_bytes" THEN conv.rsvg ELSE "raise">>

\* lines 157-170: the white image with the text "SVG conversion failed"
BlankStage(conv) == <<"blank", conv.blank>>

\* mutant: after CairoSVG the blank image is drawn, rsvg-convert is not tried
ConvertSvg_NoFallback(svg_bytes, conv) ==
    IF CairoStage(svg_bytes, conv)[2] = "ok"
    THEN ImageOk("drawing", <<CairoStage(svg_bytes, conv)>>)
    ELSE IF conv.blank = "ok"
         THEN ImageOk("notice", <<CairoStage(svg_bytes, conv), BlankStage(conv)>>)
         ELSE ImageRaise(<<CairoStage(svg_bytes, conv), BlankStage(conv)>>)

\* lines 89-171: CairoSVG, then rsvg-convert, then the blank image; the stages
\* tried are kept with what each did
ConvertSvg(svg_bytes, conv) ==
    LET cairo == CairoStage(svg_bytes, conv)
        rsvg == RsvgStage(svg_bytes, conv)
        blank == BlankStage(conv)
    IN  IF cairo[2] = "ok" THEN ImageOk("drawing", <<cairo>>)
        ELSE IF rsvg[2] = "ok" THEN ImageOk("drawing", <<cairo, rsvg>>)
             ELSE IF blank[2] = "ok" THEN ImageOk("notice", <<cairo, rsvg, blank>>)
                  ELSE ImageRaise(<<cairo, rsvg, blank>>)

Converters == [cairo : {"ok", "missing", "raise"}, rsvg : {"ok", "raise"},
               blank : {"ok", "raise"}]

\* process_svg_for_ocr(svg_content)
process_svg_for_ocr(t, conv) ==
    IF StartsWith(t, PngPrefix) /\ LoadPng(t) THEN ImageOk("drawing", <<>>)
    ELSE IF SvgBytes(t) = "raise" THEN ImageRaise(<<>>)
         ELSE ConvertSvg(SvgBytes(t), conv)

\* lines 440-464: img, or the exception caught at line 553
DecodeDrawing(t, conv) ==
    IF StartsWith(t, PngPrefix) /\ LoadPng(t) THEN ImageOk("drawing", <<>>)
    ELSE process_svg_for_ocr(t, conv)

(***************************************************************************)
(* extract_concepts_and_relations_from_image.  The dictionaries it builds  *)
(* and returns are sequences of <<key, value>> pairs as above; the values  *)
(* are JSON values, <<"text", tokens>> for a response kept as it came, and *)
(* <<"image", image>>, <<"drawing", pieces>> in what the front-end         *)
(* returns.                                                                *)
(***************************************************************************)
K(name) == Lit(name)

\* d.get(k, default)
GetOr(d, k, default) == IF HasKey(d, k) THEN Get(d, k) ELSE default

\* hash(v) does not raise TypeError
Hashable(v) == ~IsDict(v) /\ ~IsList(v)

\* lines 275-282: strip(), then a leading ```json and a trailing ``` are cut
CleanOcrResponse(toks) ==
    LET stripped == StripToks(toks)
        headless == IF stripped # <<>> /\ Head(stripped)[1] = "fence_json"
                    THEN Tail(stripped) ELSE stripped
    IN  IF headless # <<>> /\ headless[Len(headless)][1] = "fence"
        THEN SubSeq(headless, 1, Len(headless) - 1)
        ELSE headless

\* the values of c['id'] for the concepts
ConceptIds(concepts) == {Get(concepts[i][2], K("id")) : i \in DOMAIN concepts}

\* lines 304-308
ConceptsValid(concepts) ==
    \A i \in DOMAIN concepts :
        /\ IsDict(concepts[i])
        /\ HasKey(concepts[i][2], K("id"))
        /\ HasKey(concepts[i][2], K("name"))

\* mutant: the endpoints of a relationship are not looked up in concept_ids
RelationshipsValid_NoLookup(relationships, concepts) ==
    \A i \in DOMAIN relationships :
        /\ IsDict(relationships[i])
        /\ HasKey(relationships[i][2], K("source"))
        /\ HasKey(relationships[i][2], K("target"))

\* lines 311-320; an id or an endpoint that cannot be hashed raises TypeError
RelationshipsValid(relationships, concepts) ==
    /\ \A i \in DOMAIN concepts : Hashable(Get(concepts[i][2], K("id")))
    /\ \A i \in DOMAIN relationships :
          /\ IsDict(relationships[i])
          /\ HasKey(relationships[i][2], K("source"))
          /\ HasKey(relationships[i][2], K("target"))
          /\ Hashable(Get(relationships[i][2], K("source")))
          /\ Get(relationships[i][2], K("source")) \in ConceptIds(concepts)
          /\ Hashable(Get(relationships[i][2], K("target")))
          /\ Get(relationships[i][2], K("target")) \in ConceptIds(concepts)

\* lines 289-320: no ValueError or TypeError is raised
OcrDataValid(data) ==
    /\ IsDict(data)
    /\ HasKey(data[2], K("concepts"))
    /\ HasKey(data[2], K("relationships"))
    /\ HasKey(data[2], K("structure"))
    /\ IsList(Get(data[2], K("concepts")))
    /\ IsList(Get(data[2], K("relationships")))
    /\ ConceptsValid(Get(data[2], K("concepts"))[2])
    /\ RelationshipsValid(Get(data[2], K("relationships"))[2], Get(data[2], K("concepts"))[2])

\* str(v) inside an f-string
Text(v) == IF IsStr(v) THEN v[2] ELSE Lit("(value)")

\* next((c['name'] for c in concepts if c['id'] == id), id)
NameOf(concepts, id) ==
    IF \E i \in DOMAIN concepts : Get(concepts[i][2], K("id")) = id
    THEN Get(concepts[CHOOSE i \in DOMAIN concepts :
                        /\ Get(concepts[i][2], K("id")) = id
                        /\ \A j \in 1..(i - 1) : Get(concepts[j][2], K("id")) # id][2],
             K("name"))
    ELSE id

RECURSIVE ConcatAll(_)
ConcatAll(ts) == IF ts = <<>> THEN <<>> ELSE Concat(Head(ts), ConcatAll(Tail(ts)))

\* lines 330-337: the text written from the structured data
TextFromData(concepts, relationships) ==
    ConcatAll(<<Lit("Concepts:"), Lit("\n")>>
       \o [i \in DOMAIN concepts |->
              ConcatAll(<<Text(Get(concepts[i][2], K("name"))), Lit(": "),
                          Text(GetOr(concepts[i][2], K("description"), JStr(EmptyStr))),
                          Lit("\n")>>)]
       \o <<Lit("\n"), Lit("Relationships:"), Lit("\n")>>
       \o [i \in DOMAIN relationships |->
              ConcatAll(<<Text(NameOf(concepts, Get(relationships[i][2], K("source")))),
                          Lit(" "),
                          Text(GetOr(relationships[i][2], K("label"), JStr(Lit("related to")))),
                          Lit(" "),
                          Text(NameOf(concepts, Get(relationships[i][2], K("target")))),
                          Lit("\n")>>)])

\* lines 350-356 and 364-370: the result with the key 'error'
OcrError(message, raw_text) ==
    << <<K("error"), JStr(Lit(message))>>,
       <<K("concepts"), JArr(<<>>)>>,
       <<K("relationships"), JArr(<<>>)>>,
       <<K("structure"), JObj(<< <<K("type"), JStr(Lit("unknown"))>> >>)>>,
       <<K("raw_text"), raw_text>> >>

\* outcome, second: what the model does at lines 268 and 324; a response
\* without text counts as a call that raised
extract_concepts_and_relations_from_image(outcome, second) ==
    IF outcome.kind = "raise"
    THEN OcrError("Failed to extract concepts", JStr(Lit("Error extracting concepts")))
    ELSE LET parsed == JsonLoads(CleanOcrResponse(outcome.text))
             data == parsed.val
         IN  IF ~parsed.ok
             THEN OcrError("Invalid JSON response", <<"text", StripToks(outcome.text)>>)
             ELSE IF ~OcrDataValid(data)
                  THEN OcrError("Failed to extract concepts",
                                JStr(Lit("Error extracting concepts")))
                  ELSE LET raw_text_format ==
                               IF second.kind = "raise"
                               THEN TextFromData(Get(data[2], K("concepts"))[2],
                                                 Get(data[2], K("relationships"))[2])
                               ELSE Strip(second.text)
                       IN  Put(Put(data[2], K("raw_text"), JStr(raw_text_format)),
                               K("original_response"), <<"text", StripToks(outcome.text)>>)

\* the model calls extract_concepts_and_relations_from_image makes, in order
OcrCalls(outcome, second) ==
    << <<"vision", 1, outcome>> >>
    \o (IF outcome.kind = "text" /\ JsonLoads(CleanOcrResponse(outcome.text)).ok
            /\ OcrDataValid(JsonLoads(CleanOcrResponse(outcome.text)).val)
         THEN << <<"vision", 2, second>> >> ELSE <<>>)

(***************************************************************************)
(* generate_mind_map_from_ocr_results, create_mock_ocr_result and the end  *)
(* of process_drawing_for_concept_map.                                     *)
(***************************************************************************)
\* lines 399-403
OcrNode(concept) ==
    JObj(<< <<K("id"), Get(concept[2], K("id"))>>,
            <<K("label"), Get(concept[2], K("name"))>>,
            <<K("description"), GetOr(concept[2], K("description"), JStr(EmptyStr))>> >>)

\* lines 408-411: a label of more than three words becomes "relates to"
SimpleLabel(rel) ==
    LET label == GetOr(rel[2], K("label"), JStr(Lit("relates to")))
    IN  IF Len(Words(label[2])) > 3 THEN JStr(Lit("relates to")) ELSE label

\* lines 413-417
OcrEdge(rel) ==
    JObj(<< <<K("source"), Get(rel[2], K("source"))>>,
            <<K("target"), Get(rel[2], K("target"))>>,
            <<K("label"), SimpleLabel(rel)>> >>)

\* lines 392-417: the structure handed to generate_concept_map_svg
RenderGraph(ocr_data) ==
    LET concepts == GetOr(ocr_data, K("concepts"), JArr(<<>>))[2]
        relationships == GetOr(ocr_data, K("relationships"), JArr(<<>>))[2]
    IN  JObj(<< <<K("nodes"), JArr([i \in DOMAIN concepts |-> OcrNode(concepts[i])])>>,
                <<K("edges"),
                  JArr([i \in DOMAIN relationships |-> OcrEdge(relationships[i])])>> >>)

\* line 410: label.split() raises AttributeError for a label that is not a string
LabelsAreStrings(ocr_data) ==
    \A i \in DOMAIN GetOr(ocr_data, K("relationships"), JArr(<<>>))[2] :
        IsStr(GetOr(GetOr(ocr_data, K("relationships"), JArr(<<>>))[2][i][2], K("label"),
                    JStr(Lit("relates to"))))

\* generate_mind_map_from_ocr_results(ocr_data, model): what it returns or raises;
\* p1, p2 are the outcomes of the calls of dot.pipe()
generate_mind_map_from_ocr_results(ocr_data, p1, p2) ==
    IF ~LabelsAreStrings(ocr_data) THEN Raised("AttributeError")
    ELSE generate_concept_map_svg(RenderGraph(ocr_data), "network", p1, p2)

\* the calls of dot.pipe() it leads to
MindMapPipes(ocr_data, p1, p2) ==
    IF ~LabelsAreStrings(ocr_data) THEN <<>>
    ELSE SvgPipes(RenderGraph(ocr_data), "network", p1, p2)

MockConcept(id, name, description) ==
    JObj(<< <<K("id"), JStr(Lit(id))>>, <<K("name"), JStr(Lit(name))>>,
            <<K("description"), JStr(Lit(description))>> >>)

\* lines 581-590, stripped
MockText ==
    Lit("Digitized concept map with concepts: Concept 1, Concept 2 ... Concept 1 relates to Concept 2")

\* create_mock_ocr_result(svg_content)
create_mock_ocr_result(drawing) ==
    << <<K("concepts"), JArr(<< MockConcept("c1", "Concept 1", "First concept"),
                                MockConcept("c2", "Concept 2", "Second concept") >>)>>,
       <<K("relationships"),
         JArr(<< JObj(<< <<K("source"), JStr(Lit("c1"))>>, <<K("target"), JStr(Lit("c2"))>>,
                         <<K("label"), JStr(Lit("relates to"))>> >>) >>)>>,
       <<K("structure"), JObj(<< <<K("type"), JStr(Lit("network"))>>,
                                 <<K("root"), JStr(Lit("c1"))>> >>)>>,
       <<K("image"), <<"drawing", drawing>> >>,
       <<K("format"), JStr(Lit("svg"))>>,
       <<K("raw_text"), JStr(MockText)>> >>

\* lines 494-499
VisionUnavailable ==
    << <<K("error"), JStr(Lit("Vision model not available"))>>,
       <<K("concepts"), JArr(<<>>)>>,
       <<K("relationships"), JArr(<<>>)>>,
       <<K("structure"), JObj(<< <<K("type"), JStr(Lit("unknown"))>> >>)>> >>

\* bool(v) of a JSON value
Truthy(v) == IF v[1] \in {"obj", "arr", "str"} THEN v[2] # <<>> ELSE v[1] # "null"

\* line 522: the structured data holds concepts
HasConcepts(results) ==
    /\ Truthy(GetOr(results, K("concepts"), JNull))
    /\ GetOr(results, K("concepts"), JNull)[1] \in {"obj", "arr", "str"}

\* lines 518-547: what is returned for a result without 'error'
FinishAccepted(results, drawing, p1, p2) ==
         IF HasConcepts(results)
         THEN LET mind_map_svg == generate_mind_map_from_ocr_results(results, p1, p2)
              IN  IF mind_map_svg.kind = "raise" THEN create_mock_ocr_result(drawing)
                  ELSE << <<K("concepts"), GetOr(results, K("concepts"), JArr(<<>>))>>,
                          <<K("relationships"), GetOr(results, K("relationships"), JArr(<<>>))>>,
                          <<K("structure"), GetOr(results, K("structure"), JObj(<<>>))>>,
                          <<K("image"), <<"image", mind_map_svg>> >>,
                          <<K("format"), JStr(Lit("svg"))>>,
                          <<K("raw_text"), GetOr(results, K("raw_text"), JStr(EmptyStr))>> >>
         ELSE IF Truthy(GetOr(results, K("raw_text"), JStr(EmptyStr)))
              THEN << <<K("error"), JStr(Lit("No structured data available, using raw text for processing"))>>,
                      <<K("concepts"), JArr(<<>>)>>,
                      <<K("relationships"), JArr(<<>>)>>,
                      <<K("structure"), JObj(<< <<K("type"), JStr(Lit("unknown"))>> >>)>>,
                      <<K("raw_text"), GetOr(results, K("raw_text"), JStr(EmptyStr))>> >>
              ELSE create_mock_ocr_result(drawing)

\* mutant: an error of the extraction is answered with the mock
FinishDrawing_MockOnError(results, drawing, p1, p2) ==
    IF HasKey(results, K("error")) THEN create_mock_ocr_result(drawing)
    ELSE FinishAccepted(results, drawing, p1, p2)

\* lines 514-551: what process_drawing_for_concept_map returns after the
\* extraction; an error of the extraction is returned as it is (515-516)
FinishDrawing(results, drawing, p1, p2) ==
    IF HasKey(results, K("error")) THEN results
    ELSE FinishAccepted(results, drawing, p1, p2)

(***************************************************************************)
(* Bounds of the explored inputs.                                          *)
(***************************************************************************)
MaxTriples == 2

MaxLines == 2

MaxWords == 4

MaxPipeWords == 2

SeqsUpTo(S, n) == UNION {[1..k -> S] : k \in 0..n}

(***************************************************************************)
(* Input texts: words of the letter "a", some ending a sentence, joined by *)
(* single spaces, with or without white space around the text.             *)
(***************************************************************************)
Word(len, dot) == Norm(<< <<"a", len>>, <<".", IF dot THEN 1 ELSE 0>> >>)

RECURSIVE JoinWords(_)
JoinWords(ws) ==
    IF ws = <<>> THEN <<>>
    ELSE IF Len(ws) = 1 THEN Word(ws[1][1], ws[1][2])
         ELSE Concat(Concat(Word(ws[1][1], ws[1][2]), Lit(" ")), JoinWords(Tail(ws)))

MkText(ws, pad) ==
    IF pad THEN Concat(Concat(Lit(" "), JoinWords(ws)), Lit(" ")) ELSE JoinWords(ws)

TextsOf(lens, dots, n) ==
    {MkText(ws, pad) : ws \in SeqsUpTo(lens \X dots, n), pad \in BOOLEAN}

\* chunks given to the extractor alone
ExtractTexts == TextsOf({1, 4}, {FALSE}, MaxWords)

\* input of the pipeline: shorter and longer than the two thresholds
PipeTexts == TextsOf({2, 7000}, BOOLEAN, MaxPipeWords)

(***************************************************************************)
(* Responses of the model to the extractor: lines joined by newlines.      *)
(***************************************************************************)
Chars(cs) == Norm([i \in DOMAIN cs |-> <<cs[i], 1>>])

ResponseLines ==
    { Chars(<<"a", "|", "b", "|", "a">>),
      Chars(<<" ", "b", " ", "|", " ", "a", "|", "b", " ">>),
      Chars(<<"a", "|", "b">>),
      Chars(<<"a", "|", "b", "|", "a", "|", "b">>),
      Chars(<<"a", " ", "b">>),
      Chars(<<"|", "|">>),
      Chars(<<>>) }

RECURSIVE JoinLines(_)
JoinLines(ls) ==
    IF ls = <<>> THEN <<>>
    ELSE IF Len(ls) = 1 THEN ls[1]
         ELSE Concat(Concat(ls[1], Lit("\n")), JoinLines(Tail(ls)))

ExtractResponses ==
    {Raises} \cup {Returns(JoinLines(ls)) : ls \in SeqsUpTo(ResponseLines, MaxLines)}

PipeExtractResponses ==
    { Raises,
      Returns(Chars(<<"a", "|", "b", "|", "a">>)),
      Returns(Chars(<<"a", " ", "b">>)) }

(***************************************************************************)
(* Responses of the model to the unifier: JSON values written as tokens,   *)
(* plain, fenced, with trailing commas, cut short or after other text.     *)
(***************************************************************************)
A == Lit("A")

B == Lit("B")

Rel1 == Lit("r")

Rel2 == Lit("q")

UnifyTriples == SeqsUpTo({A, B} \X {Rel1, Rel2} \X {A, B}, MaxTriples)

\* json.dumps(v); with tc, a comma and white space before every closer
RECURSIVE Dump(_, _), DumpItems(_, _), DumpList(_, _)
Dump(v, tc) ==
    LET trail == IF tc THEN <<Tok(","), Tok("ws")>> ELSE <<>>
    IN  CASE v[1] = "str" -> <<TokStr(v[2])>>
          [] v[1] = "obj" ->
               <<Tok("{")>> \o DumpItems(v[2], tc)
               \o (IF v[2] # <<>> THEN trail ELSE <<>>) \o <<Tok("}")>>
          [] v[1] = "arr" ->
               <<Tok("[")>> \o DumpList(v[2], tc)
               \o (IF v[2] # <<>> THEN trail ELSE <<>>) \o <<Tok("]")>>
          [] OTHER -> <<Tok("num")>>

DumpItems(d, tc) ==
    IF d = <<>> THEN <<>>
    ELSE <<TokStr(d[1][1]), Tok(":"), Tok("ws")>> \o Dump(d[1][2], tc)
         \o (IF Len(d) > 1 THEN <<Tok(","), Tok("ws")>> \o DumpItems(Tail(d), tc) ELSE <<>>)

DumpList(xs, tc) ==
    IF xs = <<>> THEN <<>>
    ELSE Dump(xs[1], tc)
         \o (IF Len(xs) > 1 THEN <<Tok(","), Tok("ws")>> \o DumpList(Tail(xs), tc) ELSE <<>>)

Rels(r, targets) == JObj(<< <<r, JArr(StrList(targets))>> >>)

GoodGraph == Graph(<< Entry(A, Rels(Rel1, <<B>>)) >>)

ResponseValues ==
    { GoodGraph,
      Graph(<< Entry(A, Rels(Rel1, <<B, A>>)), Entry(A, Rels(Rel2, <<B>>)) >>),
      Graph(<< Entry(B, JObj(<< <<Rel1, JArr(<<JStr(A)>>)>>, <<Rel2, JArr(<<JStr(A), JStr(B)>>)>> >>)) >>),
      Graph(<<>>),
      Graph(<< JNum >>),
      Graph(<< Entry(A, JObj(<< <<Rel1, JStr(B)>> >>)) >>),
      Graph(<< Entry(A, JObj(<< <<Rel1, JArr(<<JNum>>)>> >>)) >>),
      Graph(<< Entry(A, JStr(B)) >>),
      JObj(<< <<ConceptMapsKey, JStr(A)>> >>),
      JObj(<< <<ConceptMapsKey, JArr(<<>>)>>, <<A, JNum>> >>),
      JObj(<<>>),
      JObj(<< <<A, Rels(Rel1, <<B>>)>> >>),
      JObj(<< <<A, Rels(Rel1, <<B>>)>>, <<Rel1, JNum>>, <<B, Rels(Rel2, <<A>>)>> >>),
      JObj(<< <<A, JStr(B)>> >>),
      JObj(<< <<A, JArr(<<JStr(B)>>)>> >>),
      JArr(<< Entry(A, Rels(Rel1, <<B>>)) >>),
      JArr(<<>>),
      JStr(A),
      JNum }

Fenced(toks) == <<Tok("fence_json"), Tok("ws")>> \o toks \o <<Tok("ws"), Tok("fence")>>

CutShort(toks) == SubSeq(toks, 1, Len(toks) - 1)

ResponseTokens ==
    UNION { { Dump(v, FALSE), Dump(v, TRUE), Fenced(Dump(v, FALSE)),
              Fenced(Dump(v, TRUE)), CutShort(Dump(v, FALSE)),
              <<Tok("junk"), Tok("ws")>> \o Dump(v, FALSE),
              Dump(v, FALSE) \o <<Tok("ws")>> \o Dump(v, FALSE),
              <<Tok("fence")>> \o Dump(v, FALSE) \o <<Tok("junk")>> } : v \in ResponseValues }
    \cup { <<Tok("{"), Tok(","), Tok("}")>>,
           <<Tok("["), Tok(","), Tok(","), Tok("]")>>,
           <<Tok("{"), TokStr(A), Tok(":"), Tok("num"), Tok(","), TokStr(A), Tok(":"),
             Tok("{"), Tok("}"), Tok("}")>> }

UnifyResponses == {Raises} \cup {Returns(t) : t \in ResponseTokens}

PipeUnifyResponses ==
    { Raises,
      Returns(Fenced(Dump(GoodGraph, TRUE))),
      Returns(Dump(Graph(<< JNum >>), FALSE)),
      Returns(<<Tok("junk")>>) }

\* responses to the call made by the exception handler of the pipeline
HandlerUnifyResponses ==
    { Raises,
      Returns(Dump(Graph(<< JNum >>), FALSE)),
      Returns(<<Tok("junk")>>) }

(***************************************************************************)
(* Inputs of the renderer.                                                 *)
(***************************************************************************)
LayoutStyles == {"hierarchical", "radial", "network", "circular", MissingStyle}

RenderInputs ==
    {JNull} \cup ResponseValues
    \cup {TripleFallback(ts) : ts \in UnifyTriples}
    \cup {MinimalFallback(ts) : ts \in UnifyTriples}
    \cup {ErrorGraph}

(***************************************************************************)
(* Pipeline: generate_concept_map, one action per step between two calls   *)
(* to the environment.  pc is the position in the function.                *)
(***************************************************************************)
NoResult == [kind |-> "none", empty |-> TRUE, dot |-> NoDot, exc |-> ""]

PlaceholderTriples ==
    << Triple(Lit("Empty Input"), Lit("requires"), Lit("more content")) >>

ErrorTriples ==
    << Triple(Lit("Error"), Lit("occurred during"), Lit("concept map generation")) >>

\* line 552
ShortInput(text) == text = <<>> \/ TLen(Strip(text)) < MinInputChars

\* mutant: the chunker is used whatever the length of the input
ChunksOf_AlwaysSplit(text) == split_text_into_chunks(text, DefaultMaxLength)

\* line 558
ChunksOf(text) ==
    IF TLen(text) > ChunkThreshold
    THEN split_text_into_chunks(text, DefaultMaxLength)
    ELSE <<text>>

\* lines 567-573: the triple used when no chunk gave any
NoTriplesFallback(text) ==
    LET title_words == FirstN(Words(Strip(text)), TopicWords)
        title == IF title_words # <<>> THEN Join(title_words, Lit(" ")) ELSE Lit("Concept")
    IN  << Triple(title, Lit("is related to"), Concat(Take(text, TitleChars), Lit("..."))) >>

\* lines 546-558: configure the client (no call is made to the model), then the
\* placeholder triple or the chunks
Prepare ==
    /\ pc = "start"
    /\ IF ShortInput(input_text)
       THEN /\ all_triples' = PlaceholderTriples
            /\ pc' = "unify"
            /\ UNCHANGED <<chunks, ci>>
       ELSE /\ chunks' = ChunksOf(input_text)
            /\ ci' = 1
            /\ all_triples' = <<>>
            /\ pc' = "extract"
    /\ UNCHANGED <<input_text, max_length, layout_style, concept_map, result, calls, renders, ocr_vars, crud_vars>>

\* lines 562-564: one turn of the loop, extract_triples_from_text(chunk, model)
ExtractChunk(responses) ==
    /\ pc = "extract"
    /\ ci <= Len(chunks)
    /\ \E outcome \in responses :
          /\ all_triples' = all_triples \o extract_triples_from_text(chunks[ci], outcome)
          /\ calls' = IF ExtractCalls(chunks[ci]) = 1
                      THEN Append(calls, <<"extract", ci, outcome>>)
                      ELSE calls
    /\ ci' = ci + 1
    /\ UNCHANGED <<pc, input_text, max_length, layout_style, chunks, concept_map, result, renders, ocr_vars, crud_vars>>

\* lines 566-573: after the last chunk
EndLoop ==
    /\ pc = "extract"
    /\ ci > Len(chunks)
    /\ all_triples' = IF all_triples = <<>> THEN NoTriplesFallback(input_text)
                      ELSE all_triples
    /\ pc' = "unify"
    /\ UNCHANGED <<input_text, max_length, layout_style, chunks, ci, concept_map, result, calls, renders, ocr_vars, crud_vars>>

\* line 576: generate_concept_map_json(all_triples, model)
Unify(responses) ==
    /\ pc = "unify"
    /\ \E outcome \in responses :
          /\ concept_map' = generate_concept_map_json(all_triples, outcome)
          /\ calls' = Append(calls, <<"unify", 0, outcome>>)
    /\ pc' = "render"
    /\ UNCHANGED <<input_text, max_length, layout_style, chunks, ci, all_triples, result, renders, ocr_vars, crud_vars>>

\* lines 579-582: generate_concept_map_svg(concept_map, layout_style); what it
\* raises is caught at line 584
Render ==
    /\ pc = "render"
    /\ \E p1 \in PipeOutcomes, p2 \in PipeOutcomes :
          /\ result' = generate_concept_map_svg(concept_map, StyleOrDefault(layout_style),
                                                 p1, p2)
          /\ renders' = renders \o SvgPipes(concept_map, StyleOrDefault(layout_style), p1, p2)
    /\ pc' = IF result'.kind = "raise" THEN "handler" ELSE "done"
    /\ UNCHANGED <<input_text, max_length, layout_style, chunks, ci, all_triples, concept_map, calls, ocr_vars, crud_vars>>

\* lines 589-590: the handler's generate_concept_map_json(error_triples, model)
HandlerUnify(responses) ==
    /\ pc = "handler"
    /\ \E outcome \in responses :
          /\ concept_map' = generate_concept_map_json(ErrorTriples, outcome)
          /\ calls' = Append(calls, <<"unify", 0, outcome>>)
    /\ pc' = "handler_render"
    /\ UNCHANGED <<input_text, max_length, layout_style, chunks, ci, all_triples, result, renders, ocr_vars, crud_vars>>

\* lines 591-594: the handler's generate_concept_map_svg(concept_map), with the
\* default layout; if it raises, RuntimeError leaves generate_concept_map
HandlerRender ==
    /\ pc = "handler_render"
    /\ \E p1 \in PipeOutcomes, p2 \in PipeOutcomes :
          LET svg == generate_concept_map_svg(concept_map, "hierarchical", p1, p2)
          IN  /\ result' = IF svg.kind = "raise" THEN Raised("RuntimeError") ELSE svg
              /\ renders' = renders \o SvgPipes(concept_map, "hierarchical", p1, p2)
    /\ pc' = "done"
    /\ UNCHANGED <<input_text, max_length, layout_style, chunks, ci, all_triples, concept_map, calls, ocr_vars, crud_vars>>

\* no request has been made to the routes of the concept maps
CrudIdle ==
    /\ maps = <<>>
    /\ log = <<>>

\* no drawing is being processed
OcrIdle ==
    /\ svg_content = <<>>
    /\ img = "none"
    /\ stages = <<>>
    /\ ocr_results = <<>>
    /\ ocr_return = <<>>

InitCommon ==
    /\ OcrIdle
    /\ CrudIdle
    /\ max_length = DefaultMaxLength
    /\ result = NoResult
    /\ calls = <<>>
    /\ renders = <<>>

\* generate_concept_map(input_text, model, api_key, layout_style)
Init ==
    /\ InitCommon
    /\ pc = "start"
    /\ input_text \in PipeTexts
    /\ layout_style \in {"hierarchical", "network"}
    /\ chunks = <<>>
    /\ ci = 1
    /\ all_triples = <<>>
    /\ concept_map = JNull

Next ==
    \/ Prepare
    \/ ExtractChunk(PipeExtractResponses)
    \/ EndLoop
    \/ Unify(PipeUnifyResponses)
    \/ Render
    \/ HandlerUnify(HandlerUnifyResponses)
    \/ HandlerRender

Spec == Init /\ [][Next]_vars

\* extract_triples_from_text(text, model) alone
InitExtract ==
    /\ InitCommon
    /\ pc = "extract"
    /\ input_text \in ExtractTexts
    /\ chunks = <<input_text>>
    /\ layout_style = "hierarchical"
    /\ ci = 1
    /\ all_triples = <<>>
    /\ concept_map = JNull

NextExtract == ExtractChunk(ExtractResponses)

SpecExtract == InitExtract /\ [][NextExtract]_vars

\* generate_concept_map_json(triples, model) alone
InitUnify ==
    /\ InitCommon
    /\ pc = "unify"
    /\ input_text = <<>>
    /\ chunks = <<>>
    /\ layout_style = "hierarchical"
    /\ ci = 1
    /\ all_triples \in UnifyTriples
    /\ concept_map = JNull

NextUnify == Unify(UnifyResponses)

SpecUnify == InitUnify /\ [][NextUnify]_vars

\* generate_concept_map_json followed by generate_concept_map_svg, as lines
\* 574-582 of generate_concept_map call them; the call of the unifier, once
\* made, is not suspended: the thread of the request runs it
NextCycle == Unify(PipeUnifyResponses) \/ Render

SpecCycle == InitUnify /\ [][NextCycle]_vars /\ WF_vars(Unify(PipeUnifyResponses))

\* generate_concept_map_svg(concept_map_json, layout_style) alone
InitRender ==
    /\ InitCommon
    /\ pc = "render"
    /\ input_text = <<>>
    /\ chunks = <<>>
    /\ layout_style \in LayoutStyles
    /\ ci = 1
    /\ all_triples = <<>>
    /\ concept_map \in RenderInputs

NextRender == Render

SpecRender == InitRender /\ [][NextRender]_vars

\* split_text_into_chunks(text, max_length) alone
MaxSentences == 3

MaxChunkLength == 6

ChunkTexts == TextsOf({1, 3}, BOOLEAN, MaxSentences)

InitChunk ==
    /\ OcrIdle
    /\ CrudIdle
    /\ result = NoResult
    /\ calls = <<>>
    /\ renders = <<>>
    /\ pc = "chunk"
    /\ input_text \in ChunkTexts
    /\ max_length \in 1..MaxChunkLength
    /\ chunks = <<>>
    /\ layout_style = "hierarchical"
    /\ ci = 1
    /\ all_triples = <<>>
    /\ concept_map = JNull

\* lines 42-53: the call returns the chunks
Chunk ==
    /\ pc = "chunk"
    /\ chunks' = split_text_into_chunks(input_text, max_length)
    /\ pc' = "chunked"
    /\ UNCHANGED <<input_text, max_length, layout_style, ci, all_triples, concept_map,
                   result, calls, renders, ocr_vars, crud_vars>>

NextChunk == Chunk

SpecChunk == InitChunk /\ [][NextChunk]_vars

(***************************************************************************)
(* The OCR front-end on its own: process_drawing_for_concept_map.          *)
(***************************************************************************)
SvgUrlPrefix == <<"data:", "image/svg+xml", ";base64", ",">>

\* the drawings posted: raw SVG, data URLs, and content that is neither
DrawingInputs ==
    { <<>>,
      <<"hello">>,
      <<" ", "<svg", "markup", " ">>,
      <<"<svg", "broken">>,
      <<"blob:", "x">>,
      PngPrefix \o <<"b64_png">>,
      PngPrefix \o <<"not_b64">>,
      PngPrefix \o <<"b64_junk">>,
      SvgUrlPrefix \o <<"b64_svg">>,
      SvgUrlPrefix \o <<"not_b64">>,
      SvgUrlPrefix \o <<"b64_junk">>,
      <<"data:", "text/plain", ",", "b64_svg">>,
      <<"data:", "image/svg+xml">> }

Concept(id, name) ==
    JObj(<< <<K("id"), JStr(Lit(id))>>, <<K("name"), JStr(Lit(name))>>,
            <<K("description"), JStr(Lit("d"))>> >>)

Relationship(source, target, label) ==
    JObj(<< <<K("source"), JStr(Lit(source))>>, <<K("target"), JStr(Lit(target))>>,
            <<K("label"), label>> >>)

Structure == JObj(<< <<K("type"), JStr(Lit("network"))>>, <<K("root"), JStr(Lit("c1"))>> >>)

OcrData(concepts, relationships) ==
    JObj(<< <<K("concepts"), JArr(concepts)>>, <<K("relationships"), JArr(relationships)>>,
            <<K("structure"), Structure>> >>)

ShortLabel == JStr(Join(<<Lit("connects"), Lit("to")>>, Lit(" ")))

LongLabel == JStr(Join(<<Lit("is"), Lit("a"), Lit("kind"), Lit("of")>>, Lit(" ")))

TwoConcepts == <<Concept("c1", "A"), Concept("c2", "B")>>

\* what the vision model answers, as JSON values
OcrValues ==
    { OcrData(TwoConcepts, <<Relationship("c1", "c2", ShortLabel)>>),
      OcrData(TwoConcepts, <<Relationship("c1", "c2", LongLabel),
                             Relationship("c2", "c1", ShortLabel)>>),
      OcrData(TwoConcepts, <<Relationship("c1", "c2", JNum)>>),
      OcrData(TwoConcepts,
              << JObj(<< <<K("source"), JStr(Lit("c2"))>>, <<K("target"), JStr(Lit("c1"))>> >>) >>),
      OcrData(<<Concept("c1", "A")>>, <<>>),
      OcrData(<<>>, <<>>),
      OcrData(TwoConcepts, <<Relationship("c1", "c3", ShortLabel)>>),
      OcrData(TwoConcepts, <<Relationship("c0", "c2", ShortLabel)>>),
      OcrData(TwoConcepts, <<JStr(Lit("c1"))>>),
      OcrData(TwoConcepts, << JObj(<< <<K("source"), JStr(Lit("c1"))>> >>) >>),
      OcrData(<< JObj(<< <<K("id"), JStr(Lit("c1"))>> >>) >>, <<>>),
      OcrData(<< JObj(<< <<K("id"), JArr(<<>>)>>, <<K("name"), JStr(Lit("A"))>> >>) >>, <<>>),
      JObj(<< <<K("concepts"), JArr(TwoConcepts)>>, <<K("relationships"), JArr(<<>>)>> >>),
      JObj(<< <<K("concepts"), JArr(TwoConcepts)>>, <<K("structure"), Structure>> >>),
      JObj(<< <<K("concepts"), JStr(Lit("A"))>>, <<K("relationships"), JArr(<<>>)>>,
              <<K("structure"), Structure>> >>),
      JObj(<< <<K("error"), JStr(Lit("unreadable"))>>, <<K("concepts"), JArr(TwoConcepts)>>,
              <<K("relationships"), JArr(<<>>)>>, <<K("structure"), Structure>> >>),
      JArr(TwoConcepts),
      JObj(<<>>) }

\* the same as text: bare, inside a fence, cut short, after a remark
OcrTokens ==
    UNION { { Dump(v, FALSE), <<Tok("ws")>> \o Fenced(Dump(v, FALSE)),
              CutShort(Dump(v, FALSE)),
              <<Tok("junk"), Tok("ws")>> \o Dump(v, FALSE) } : v \in OcrValues }
    \cup { <<>>, <<Tok("junk")>>, Dump(OcrData(TwoConcepts, <<>>), TRUE) }

OcrResponses == {Raises} \cup {Returns(t) : t \in OcrTokens}

\* the answers to the request for a plain text
SecondResponses == {Raises, Returns(Lit("A connects to B")), Returns(Lit(" "))}

\* the answers to the test request of line 487
TestResponses == {Raises, Returns(Lit("ok"))}

InitOcr ==
    /\ result = NoResult
    /\ calls = <<>>
    /\ renders = <<>>
    /\ pc = "ocr_decode"
    /\ input_text = <<>>
    /\ max_length = DefaultMaxLength
    /\ chunks = <<>>
    /\ layout_style = "network"
    /\ ci = 1
    /\ all_triples = <<>>
    /\ concept_map = JNull
    /\ CrudIdle
    /\ svg_content \in DrawingInputs
    /\ img = "none"
    /\ stages = <<>>
    /\ ocr_results = <<>>
    /\ ocr_return = <<>>

\* lines 440-474: the drawing becomes an image; what is raised is caught at
\* line 553 and answered with the mock
Decode ==
    /\ pc = "ocr_decode"
    /\ \E conv \in Converters :
          LET d == DecodeDrawing(svg_content, conv)
          IN  /\ img' = d.img
              /\ stages' = d.stages
              /\ pc' = IF d.kind = "raise" THEN "ocr_done" ELSE "ocr_model"
              /\ ocr_return' = IF d.kind = "raise" THEN create_mock_ocr_result(svg_content)
                                ELSE ocr_return
    /\ UNCHANGED <<input_text, max_length, layout_style, chunks, ci, all_triples,
                   concept_map, result, calls, renders, svg_content, ocr_results, crud_vars>>

\* lines 476-499: the vision model is tried with a test request
TestVision ==
    /\ pc = "ocr_model"
    /\ \E outcome \in TestResponses :
          /\ calls' = Append(calls, <<"vision", 0, outcome>>)
          /\ pc' = IF outcome.kind = "raise" THEN "ocr_done" ELSE "ocr_extract"
          /\ ocr_return' = IF outcome.kind = "raise" THEN VisionUnavailable ELSE ocr_return
    /\ UNCHANGED <<input_text, max_length, layout_style, chunks, ci, all_triples,
                   concept_map, result, renders, svg_content, img, stages, ocr_results, crud_vars>>

\* line 512: extract_concepts_and_relations_from_image(img, vision_model)
ExtractImage ==
    /\ pc = "ocr_extract"
    /\ \E outcome \in OcrResponses, second \in SecondResponses :
          /\ ocr_results' = extract_concepts_and_relations_from_image(outcome, second)
          /\ calls' = calls \o OcrCalls(outcome, second)
    /\ pc' = "ocr_finish"
    /\ UNCHANGED <<input_text, max_length, layout_style, chunks, ci, all_triples,
                   concept_map, result, renders, svg_content, img, stages, ocr_return, crud_vars>>

\* whether line 524 is reached and its call gets as far as the renderer
CallsRenderer(results) ==
    ~HasKey(results, K("error")) /\ HasConcepts(results) /\ LabelsAreStrings(results)

\* lines 514-551: the result is returned; the graph handed to the renderer
\* and the image it gave are kept in concept_map and result
FinishOcr ==
    /\ pc = "ocr_finish"
    /\ \E p1 \in PipeOutcomes, p2 \in PipeOutcomes :
          /\ ocr_return' = FinishDrawing(ocr_results, svg_content, p1, p2)
          /\ IF CallsRenderer(ocr_results)
             THEN /\ concept_map' = RenderGraph(ocr_results)
                  /\ result' = generate_mind_map_from_ocr_results(ocr_results, p1, p2)
                  /\ renders' = renders \o MindMapPipes(ocr_results, p1, p2)
             ELSE UNCHANGED <<concept_map, result, renders>>
    /\ pc' = "ocr_done"
    /\ UNCHANGED <<input_text, max_length, layout_style, chunks, ci, all_triples,
                   calls, svg_content, img, stages, ocr_results, crud_vars>>

NextOcr == Decode \/ TestVision \/ ExtractImage \/ FinishOcr

SpecOcr == InitOcr /\ [][NextOcr]_vars

(***************************************************************************)
(* The routes of the concept maps (crud_routes.py) over the table          *)
(* concept_maps (models.py).  A caller is the user of a valid bearer token *)
(* or NoUser for a request without one.  A handler that raises is answered *)
(* with status 500 and leaves the table as it was.                         *)
(***************************************************************************)
MaxRequests == 3

NoUser == "none"

Users == {"u1", "u2"}

Callers == Users \cup {NoUser}

\* models.py:181-207: the attributes of the mapped class ConceptMap
ConceptMapAttributes ==
    {"id", "name", "user_id", "is_public", "share_id", "is_favorite", "created_at",
     "updated_at", "image", "format", "input_text", "description", "learning_objective",
     "is_deleted", "nodes", "edges"}

\* crud_routes.py:94-106: the keywords of the call ConceptMap(...)
CreateKeywords ==
    {"name", "user_id", "image", "format", "is_public", "is_favorite", "share_id",
     "input_text", "description", "learning_objective", "whiteboard_content"}

\* the constructor of a mapped class raises TypeError for a keyword that is
\* not an attribute of the class
ConstructorRaises(keywords, attributes) == keywords \ attributes # {}

\* models.py:331-338: the parameters of Node.__init__; the name Node of the
\* module is the plain class defined last
NodeParameters == {"node_id", "label", "position", "properties"}

\* crud_routes.py:115-120: the keywords of the call Node(...)
CreateNodeKeywords == {"concept_map", "label", "x", "y"}

\* models.py:353-358 and crud_routes.py:126-131: the same for Edge
EdgeParameters == {"edge_id", "source", "target", "label", "properties"}

CreateEdgeKeywords == {"concept_map", "source_id", "target_id", "label"}

\* a row of the table concept_maps
MapRow(id, name, user_id, is_deleted) ==
    [id |-> id, name |-> name, user_id |-> user_id, is_deleted |-> is_deleted,
     is_public |-> FALSE, share_id |-> <<"share", id>>, nodes |-> <<>>]

\* ConceptMap.to_dict(), the fields followed here
MapDict(row) ==
    [id |-> row.id, name |-> row.name, user_id |-> row.user_id,
     is_public |-> row.is_public, share_id |-> row.share_id, nodes |-> row.nodes]

Response(status, map_id, listing, rows) ==
    [status |-> status, map_id |-> map_id, listing |-> listing, maps |-> rows]

\* create_concept_map (lines 29-160); the branch of lines 49-89 imports
\* extract_concept_map_from_text, which mind_map.py does not define, and its
\* except leaves nodes and edges as they were
create_concept_map(caller, data, rows) ==
    IF caller = NoUser THEN Response(401, 0, <<>>, rows)
    ELSE IF data = <<>> \/ ~HasKey(data, "name") THEN Response(400, 0, <<>>, rows)
    ELSE IF ConstructorRaises(CreateKeywords, ConceptMapAttributes)
         THEN Response(500, 0, <<>>, rows)
    ELSE IF GetOr(data, "nodes", <<>>) # <<>>
            /\ ConstructorRaises(CreateNodeKeywords, NodeParameters)
         THEN Response(500, 0, <<>>, rows)
    ELSE IF GetOr(data, "edges", <<>>) # <<>>
            /\ ConstructorRaises(CreateEdgeKeywords, EdgeParameters)
         THEN Response(500, 0, <<>>, rows)
    ELSE Response(201, Len(rows) + 1, <<>>,
                  Append(rows, MapRow(Len(rows) + 1, Get(data, "name"), caller, FALSE)))

\* get_concept_maps (lines 19-26)
get_concept_maps(caller, rows) ==
    IF caller = NoUser THEN Response(401, 0, <<>>, rows)
    ELSE LET user_maps == SelectSeq(rows, LAMBDA m : m.user_id = caller /\ ~m.is_deleted)
         IN  Response(200, 0, [i \in DOMAIN user_maps |-> MapDict(user_maps[i])], rows)

\* delete_concept_map (lines 306-327): a soft delete
delete_concept_map(caller, map_id, rows) ==
    IF caller = NoUser THEN Response(401, map_id, <<>>, rows)
    ELSE IF \E i \in DOMAIN rows : /\ rows[i].id = map_id
                                    /\ rows[i].user_id = caller
                                    /\ ~rows[i].is_deleted
         THEN Response(200, map_id, <<>>,
                       [i \in DOMAIN rows |->
                           IF rows[i].id = map_id
                           THEN [rows[i] EXCEPT !.is_deleted = TRUE] ELSE rows[i]])
         ELSE Response(404, map_id, <<>>, rows)

\* the rows that a query with these filters finds
OwnLive(caller, map_id, rows) ==
    {i \in DOMAIN rows : /\ rows[i].id = map_id
                         /\ rows[i].user_id = caller
                         /\ ~rows[i].is_deleted}

\* get_concept_map (lines 202-211): filter_by(id=map_id) only
get_concept_map(caller, map_id, rows) ==
    IF caller = NoUser THEN Response(401, map_id, <<>>, rows)
    ELSE IF \E i \in DOMAIN rows : rows[i].id = map_id
         THEN Response(200, map_id,
                       << MapDict(rows[CHOOSE i \in DOMAIN rows : rows[i].id = map_id]) >>,
                       rows)
         ELSE Response(404, map_id, <<>>, rows)

\* get_shared_concept_map and get_public_concept_map (lines 214-225, 364-378):
\* no token is asked for
get_shared_concept_map(share_id, rows) ==
    LET found == {i \in DOMAIN rows : /\ rows[i].share_id = share_id
                                      /\ rows[i].is_public
                                      /\ ~rows[i].is_deleted}
    IN  IF found = {} THEN Response(404, 0, <<>>, rows)
        ELSE Response(200, rows[CHOOSE i \in found : TRUE].id,
                      << MapDict(rows[CHOOSE i \in found : TRUE]) >>, rows)

\* models.py:331-347: the attributes of the class that the name Node is bound
\* to; a mapped class would have "query"
NodeClassAttributes == {"to_dict"}

\* models.py:350-368: the same for Edge
EdgeClassAttributes == {"to_dict"}

\* update_concept_map (lines 228-304); Node.query and Edge.query raise
\* AttributeError, and what was assigned before is not committed
update_concept_map(caller, map_id, data, rows) ==
    IF caller = NoUser THEN Response(401, map_id, <<>>, rows)
    ELSE IF OwnLive(caller, map_id, rows) = {} THEN Response(404, map_id, <<>>, rows)
    ELSE IF HasKey(data, "nodes") /\ "query" \notin NodeClassAttributes
         THEN Response(500, map_id, <<>>, rows)
    ELSE IF HasKey(data, "edges") /\ "query" \notin EdgeClassAttributes
         THEN Response(500, map_id, <<>>, rows)
    ELSE LET i == CHOOSE k \in OwnLive(caller, map_id, rows) : TRUE
             updated ==
                 [rows[i] EXCEPT
                    !.name = IF HasKey(data, "name") THEN Get(data, "name") ELSE @,
                    !.is_public = IF HasKey(data, "is_public")
                                  THEN Get(data, "is_public") ELSE @,
                    !.nodes = IF HasKey(data, "nodes") THEN Get(data, "nodes") ELSE @]
         IN  Response(200, map_id, << MapDict(updated) >>,
                      [k \in DOMAIN rows |-> IF k = i THEN updated ELSE rows[k]])

\* share_concept_map (lines 330-362); a stored map has a share_id
share_concept_map(caller, map_id, rows) ==
    IF caller = NoUser THEN Response(401, map_id, <<>>, rows)
    ELSE IF OwnLive(caller, map_id, rows) = {} THEN Response(404, map_id, <<>>, rows)
    ELSE Response(200, map_id, <<>>,
                  [k \in DOMAIN rows |->
                      IF k \in OwnLive(caller, map_id, rows)
                      THEN [rows[k] EXCEPT !.is_public = TRUE] ELSE rows[k]])

\* the JSON bodies put: a name, a name and a list of nodes, a flag
UpdateBodies ==
    { << <<"name", "Updated Map">> >>,
      << <<"name", "Updated Map">>, <<"nodes", <<"New Concept">> >> >>,
      << <<"is_public", TRUE>> >> }

\* the JSON bodies posted: none, one without a name, a name, a name and nodes
CreateBodies ==
    { <<>>,
      << <<"description", "d">> >>,
      << <<"name", "Test Map">> >>,
      << <<"name", "Other">>, <<"nodes", <<"n1">> >> >> }

\* the table as earlier requests left it
StoredMaps ==
    { <<>>,
      << MapRow(1, "Old", "u1", FALSE) >>,
      << MapRow(1, "Old", "u1", TRUE), MapRow(2, "Theirs", "u2", FALSE) >>,
      << [MapRow(1, "Shared", "u2", FALSE) EXCEPT !.is_public = TRUE,
                                                   !.nodes = <<"Concept 1">>] >> }

Request(method, caller, data, r) ==
    [method |-> method, caller |-> caller, data |-> data, status |-> r.status,
     map_id |-> r.map_id, listing |-> r.listing]

InitCrud ==
    /\ OcrIdle
    /\ result = NoResult
    /\ calls = <<>>
    /\ renders = <<>>
    /\ pc = "serving"
    /\ input_text = <<>>
    /\ max_length = DefaultMaxLength
    /\ chunks = <<>>
    /\ layout_style = "hierarchical"
    /\ ci = 1
    /\ all_triples = <<>>
    /\ concept_map = JNull
    /\ maps \in StoredMaps
    /\ log = <<>>

\* POST /api/concept-map/
CreateMap ==
    /\ pc = "serving"
    /\ Len(log) < MaxRequests
    /\ \E caller \in Callers, data \in CreateBodies :
          LET r == create_concept_map(caller, data, maps)
          IN  /\ maps' = r.maps
              /\ log' = Append(log, Request("POST", caller, data, r))
    /\ UNCHANGED <<pc, input_text, max_length, layout_style, chunks, ci, all_triples,
                   concept_map, result, calls, renders, ocr_vars>>

\* GET /api/concept-map/
ListMaps ==
    /\ pc = "serving"
    /\ Len(log) < MaxRequests
    /\ \E caller \in Callers :
          LET r == get_concept_maps(caller, maps)
          IN  /\ maps' = r.maps
              /\ log' = Append(log, Request("GET", caller, <<>>, r))
    /\ UNCHANGED <<pc, input_text, max_length, layout_style, chunks, ci, all_triples,
                   concept_map, result, calls, renders, ocr_vars>>

\* DELETE /api/concept-map/<map_id>/
DeleteMap ==
    /\ pc = "serving"
    /\ Len(log) < MaxRequests
    /\ \E caller \in Callers, map_id \in 1..(Len(maps) + 1) :
          LET r == delete_concept_map(caller, map_id, maps)
          IN  /\ maps' = r.maps
              /\ log' = Append(log, Request("DELETE", caller, <<>>, r))
    /\ UNCHANGED <<pc, input_text, max_length, layout_style, chunks, ci, all_triples,
                   concept_map, result, calls, renders, ocr_vars>>

\* GET /api/concept-map/<map_id>/
GetMap ==
    /\ pc = "serving"
    /\ Len(log) < MaxRequests
    /\ \E caller \in Callers, map_id \in 1..(Len(maps) + 1) :
          LET r == get_concept_map(caller, map_id, maps)
          IN  /\ maps' = r.maps
              /\ log' = Append(log, Request("GET_ONE", caller, <<>>, r))
    /\ UNCHANGED <<pc, input_text, max_length, layout_style, chunks, ci, all_triples,
                   concept_map, result, calls, renders, ocr_vars>>

\* GET /api/concept-map/<share_id>/ and /shared/concept-maps/<share_id>/
GetShared ==
    /\ pc = "serving"
    /\ Len(log) < MaxRequests
    /\ \E caller \in Callers, k \in DOMAIN maps :
          LET r == get_shared_concept_map(maps[k].share_id, maps)
          IN  /\ maps' = r.maps
              /\ log' = Append(log, Request("GET_SHARED", caller, maps[k].share_id, r))
    /\ UNCHANGED <<pc, input_text, max_length, layout_style, chunks, ci, all_triples,
                   concept_map, result, calls, renders, ocr_vars>>

\* PUT /api/concept-map/<map_id>/
UpdateMap ==
    /\ pc = "serving"
    /\ Len(log) < MaxRequests
    /\ \E caller \in Callers, map_id \in 1..(Len(maps) + 1), data \in UpdateBodies :
          LET r == update_concept_map(caller, map_id, data, maps)
          IN  /\ maps' = r.maps
              /\ log' = Append(log, Request("PUT", caller, data, r))
    /\ UNCHANGED <<pc, input_text, max_length, layout_style, chunks, ci, all_triples,
                   concept_map, result, calls, renders, ocr_vars>>

\* POST /api/concept-map/<map_id>/share/
ShareMap ==
    /\ pc = "serving"
    /\ Len(log) < MaxRequests
    /\ \E caller \in Callers, map_id \in 1..(Len(maps) + 1) :
          LET r == share_concept_map(caller, map_id, maps)
          IN  /\ maps' = r.maps
              /\ log' = Append(log, Request("SHARE", caller, <<>>, r))
    /\ UNCHANGED <<pc, input_text, max_length, layout_style, chunks, ci, all_triples,
                   concept_map, result, calls, renders, ocr_vars>>

NextCrud ==
    CreateMap \/ ListMaps \/ DeleteMap \/ GetMap \/ GetShared \/ UpdateMap \/ ShareMap

SpecCrud == InitCrud /\ [][NextCrud]_vars

(***************************************************************************)
(* Properties.  Helpers to read the history and a returned graph.          *)
(***************************************************************************)
Range(xs) == {xs[i] : i \in DOMAIN xs}

Count(xs, x) == Cardinality({i \in DOMAIN xs : xs[i] = x})

\* the outcome of the latest model call
LastOutcome == calls[Len(calls)][3]

\* the latest response, cleaned and parsed as the unifier does
LastParsed == JsonLoads(CleanResponse(LastOutcome.text))

\* generate_concept_map_json has returned (SpecUnify)
UnifyReturned == pc = "render" /\ calls # <<>>

UnifyRaised == UnifyReturned /\ LastOutcome.kind = "raise"

\* the response is not JSON, after the repairs
UnifyUnparseable == UnifyReturned /\ LastOutcome.kind = "text" /\ ~LastParsed.ok

\* the response is JSON but not an object with the key 'concept_maps'
UnifyWrongShape ==
    /\ UnifyReturned
    /\ LastOutcome.kind = "text"
    /\ LastParsed.ok
    /\ ~(IsDict(LastParsed.val) /\ HasKey(LastParsed.val[2], ConceptMapsKey))

HasConceptMaps(cm) == IsDict(cm) /\ HasKey(cm[2], ConceptMapsKey)

\* the entries of a graph that has the key
EntriesOf(cm) == Get(cm[2], ConceptMapsKey)[2]

\* 'concept_maps' is a non-empty list of {name: {relation: [name, ...]}} entries
WellFormed(cm) ==
    /\ HasConceptMaps(cm)
    /\ IsList(Get(cm[2], ConceptMapsKey))
    /\ EntriesOf(cm) # <<>>
    /\ \A i \in DOMAIN EntriesOf(cm) :
          LET entry == EntriesOf(cm)[i]
          IN  /\ IsDict(entry)
              /\ \A j \in DOMAIN entry[2] :
                    LET relations == entry[2][j][2]
                    IN  /\ IsDict(relations)
                        /\ \A k \in DOMAIN relations[2] :
                              LET targets == relations[2][k][2]
                              IN  /\ IsList(targets)
                                  /\ \A l \in DOMAIN targets[2] : IsStr(targets[2][l])

\* the places <<entry, item, relation, target>> of the edges of a well-formed graph
EdgeSlots(cm) ==
    LET E == EntriesOf(cm)
    IN  UNION { UNION { UNION { { <<i, j, k, l>> :
                    l \in DOMAIN E[i][2][j][2][2][k][2][2] } :
                  k \in DOMAIN E[i][2][j][2][2] } :
                j \in DOMAIN E[i][2] } :
              i \in DOMAIN E }

\* the edge subject -> relation -> object at a place
EdgeAt(cm, x) ==
    LET item == EntriesOf(cm)[x[1]][2][x[2]]
        rel == item[2][2][x[3]]
    IN  Triple(item[1], rel[1], rel[2][2][x[4]][2])

\* how many edges of the graph are the triple t
EdgeCount(cm, t) == Cardinality({x \in EdgeSlots(cm) : EdgeAt(cm, x) = t})

\* the entries of a graph keyed s
EntriesKeyed(cm, s) ==
    {i \in DOMAIN EntriesOf(cm) : IsDict(EntriesOf(cm)[i]) /\ HasKey(EntriesOf(cm)[i][2], s)}

\* the entry holds the pair (r, o): o is one of the targets of its relation r
HoldsPair(entry, s, r, o) ==
    /\ IsDict(entry) /\ HasKey(entry[2], s)
    /\ IsDict(Get(entry[2], s)) /\ HasKey(Get(entry[2], s)[2], r)
    /\ IsList(Get(Get(entry[2], s)[2], r))
    /\ \E l \in DOMAIN Get(Get(entry[2], s)[2], r)[2] :
          Get(Get(entry[2], s)[2], r)[2][l] = JStr(o)

\* the subjects that occur in more than one input triple
RepeatedSubjects ==
    {s \in {all_triples[i][1] : i \in DOMAIN all_triples} :
        Cardinality({i \in DOMAIN all_triples : all_triples[i][1] = s}) > 1}

\* exactly one entry keyed s, holding every (relation, object) pair of s
MergedOnce(cm, s) ==
    /\ HasConceptMaps(cm)
    /\ IsList(Get(cm[2], ConceptMapsKey))
    /\ Cardinality(EntriesKeyed(cm, s)) = 1
    /\ \A i \in DOMAIN all_triples :
          all_triples[i][1] = s =>
             \E e \in EntriesKeyed(cm, s) :
                HoldsPair(EntriesOf(cm)[e], s, all_triples[i][2], all_triples[i][3])

(***************************************************************************)
(* C4: whatever the triples and the outcome of the model call,             *)
(* generate_concept_map_json returns an object that has the top-level key  *)
(* 'concept_maps'.                                                         *)
(***************************************************************************)
C4_HasTopLevelKey == UnifyReturned => HasConceptMaps(concept_map)

\* a fenced response with trailing commas, unparseable as sent and parsed after
\* the repairs
C4_Witness ==
    /\ UnifyReturned
    /\ LastOutcome.kind = "text"
    /\ \E i \in DOMAIN LastOutcome.text : LastOutcome.text[i][1] = "fence_json"
    /\ ~JsonLoads(RemoveTok(RemoveTok(LastOutcome.text, "fence_json"), "fence")).ok
    /\ LastParsed.ok
    /\ HasConceptMaps(LastParsed.val)
    /\ concept_map = LastParsed.val

(***************************************************************************)
(* C5 as claimed: a response that parses as JSON but is not an object with *)
(* 'concept_maps' gives the graph an unparseable response gives, the tree  *)
(* rebuilt from the triples.                                               *)
(***************************************************************************)
C5_Original == UnifyWrongShape => concept_map = TripleFallback(all_triples)

\* the top-level items of the parsed response whose value is an object
DictItems(v) == IF IsDict(v) THEN SelectSeq(v[2], LAMBDA item : IsDict(item[2])) ELSE <<>>

(***************************************************************************)
(* C5 amended: such a response is not answered with the tree of the        *)
(* triples.  The graph returned has one entry {key: value} per top-level   *)
(* item of the response whose value is an object, in order; if there is    *)
(* none, it is the one entry "Concept" whose relation "contains" holds the *)
(* object of the first triple ("information" without triples) as a string. *)
(***************************************************************************)
C5_Restructured ==
    UnifyWrongShape =>
        /\ HasConceptMaps(concept_map)
        /\ IF DictItems(LastParsed.val) # <<>>
           THEN EntriesOf(concept_map) =
                   [i \in DOMAIN DictItems(LastParsed.val) |->
                       JObj(<< DictItems(LastParsed.val)[i] >>)]
           ELSE EntriesOf(concept_map) =
                   << JObj(<< << Lit("Concept"),
                                 JObj(<< << Lit("contains"),
                                            JStr(IF all_triples # <<>>
                                                 THEN all_triples[1][3]
                                                 ELSE Lit("information")) >> >>) >> >>) >>

\* an object with items of both kinds, and triples whose tree differs
C5_Witness ==
    /\ UnifyWrongShape
    /\ IsDict(LastParsed.val)
    /\ DictItems(LastParsed.val) # <<>>
    /\ Len(DictItems(LastParsed.val)) < Len(LastParsed.val[2])
    /\ all_triples # <<>>
    /\ concept_map # TripleFallback(all_triples)

(***************************************************************************)
(* C6: for a response that is not JSON and a non-empty triple list, the    *)
(* graph is well formed, its edges are the input triples with their        *)
(* multiplicities (nothing added, nothing dropped), and its first entry is *)
(* the subject of the first triple.                                        *)
(***************************************************************************)
C6_FallbackKeepsTriples ==
    (UnifyUnparseable /\ all_triples # <<>>) =>
        /\ WellFormed(concept_map)
        /\ \A t \in Range(all_triples) \cup {EdgeAt(concept_map, x) : x \in EdgeSlots(concept_map)} :
              EdgeCount(concept_map, t) = Count(all_triples, t)
        /\ EntriesOf(concept_map)[1][2][1][1] = all_triples[1][1]

\* two triples of one subject and one relation, in a graph of one entry
C6_Witness ==
    /\ UnifyUnparseable
    /\ Len(all_triples) > 1
    /\ all_triples[1][1] = all_triples[2][1]
    /\ all_triples[1][2] = all_triples[2][2]
    /\ all_triples[1][3] # all_triples[2][3]
    /\ Len(EntriesOf(concept_map)) = 1
    /\ Cardinality(EdgeSlots(concept_map)) = Len(all_triples)

(***************************************************************************)
(* C7 as claimed: whenever a subject occurs in more than one triple, the   *)
(* returned graph has exactly one entry keyed by it, holding every         *)
(* (relation, object) pair of its triples.                                 *)
(***************************************************************************)
C7_Original ==
    UnifyReturned => \A s \in RepeatedSubjects : MergedOnce(concept_map, s)

(***************************************************************************)
(* C7 amended: this holds when the model's response is not parseable JSON, *)
(* where the graph is rebuilt from the triples; a graph taken from the     *)
(* response is returned as the model wrote it.                             *)
(***************************************************************************)
C7_FallbackMerges ==
    UnifyUnparseable => \A s \in RepeatedSubjects : MergedOnce(concept_map, s)

\* one subject with two different relations, merged into one entry
C7_Witness ==
    /\ UnifyUnparseable
    /\ RepeatedSubjects # {}
    /\ \E i, j \in DOMAIN all_triples :
          /\ all_triples[i][1] = all_triples[j][1]
          /\ all_triples[i][2] # all_triples[j][2]
    /\ \A s \in RepeatedSubjects : MergedOnce(concept_map, s)

\* what build_graph draws of a returned graph
Drawn(cm) == build_graph(EntriesOf(cm), "hierarchical").dot

(***************************************************************************)
(* C8 as claimed: if the model call raises, the graph returned consists of *)
(* a single node: one concept, no edge to another concept.                 *)
(***************************************************************************)
C8_Original ==
    UnifyRaised =>
        /\ WellFormed(concept_map)
        /\ Len(Drawn(concept_map).nodes) = 1
        /\ Drawn(concept_map).edges = <<>>

(***************************************************************************)
(* C8 amended: if the model call raises, generate_concept_map_json returns *)
(* the fixed graph of one entry, "Error" -suggests-> "Please try again",   *)
(* which is drawn as two nodes joined by one edge.                         *)
(***************************************************************************)
C8_ErrorGraph ==
    UnifyRaised =>
        /\ WellFormed(concept_map)
        /\ Len(EntriesOf(concept_map)) = 1
        /\ [i \in 1..Len(Drawn(concept_map).nodes) |-> Drawn(concept_map).nodes[i].label]
              = << Lit("Error"), Lit("Please try again") >>
        /\ Drawn(concept_map).edges = << <<NodeId(1), NodeId(2), Lit("suggests")>> >>

C8_Witness ==
    /\ UnifyRaised
    /\ all_triples # <<>>
    /\ Len(Drawn(concept_map).nodes) = 2

(***************************************************************************)
(* C9 as claimed: every graph generate_concept_map_json returns is well    *)
(* formed: 'concept_maps' is a non-empty list of entries that map a        *)
(* concept name to a mapping from relation label to a list of names.       *)
(***************************************************************************)
C9_Claim == UnifyReturned => WellFormed(concept_map)

\* extract_triples_from_text has returned (SpecExtract)
ExtractReturned == pc = "extract" /\ ci = 2

(***************************************************************************)
(* C10: for every chunk and every outcome of the model call,               *)
(* extract_triples_from_text returns at least one triple; when the model   *)
(* call raises, it returns exactly one triple, the fallback                *)
(* (topic, "is", "the main concept").                                      *)
(***************************************************************************)
C10_AtLeastOneTriple ==
    ExtractReturned =>
        /\ Len(all_triples) >= 1
        /\ (calls # <<>> /\ LastOutcome.kind = "raise") =>
              /\ Len(all_triples) = 1
              /\ all_triples[1][2] = Lit("is")
              /\ all_triples[1][3] = Lit("the main concept")

C10_Witness ==
    /\ ExtractReturned
    /\ calls # <<>>
    /\ LastOutcome.kind = "raise"
    /\ all_triples = << Triple(MainTopic(input_text), Lit("is"), Lit("the main concept")) >>
    /\ Len(Words(input_text)) > TopicWords

\* generate_concept_map_svg has returned or raised (SpecRender)
SvgReturned == pc \in {"done", "handler"} /\ renders # <<>>

\* the latest call of dot.pipe(): <<which graph, outcome>>
LastRender == renders[Len(renders)]

\* the one-node error diagram
IsErrorDiagram(image) ==
    /\ image.kind = "return"
    /\ ~image.empty
    /\ Len(image.dot.nodes) = 1
    /\ image.dot.nodes[1].id = Lit("Error")
    /\ image.dot.edges = <<>>

PipelineDone == pc = "done"

\* every call of the rendering library returned the bytes of an image
AllRendersOk == \A i \in DOMAIN renders : renders[i][2] = "ok"

\* the calls of the model that raised, by stage
RaisedCalls(stage) == {i \in DOMAIN calls : calls[i][1] = stage /\ calls[i][3].kind = "raise"}

(***************************************************************************)
(* C2: whatever the input text and the outcome of every model call,        *)
(* generate_concept_map returns a non-empty base64 image and does not      *)
(* raise, provided every call of the rendering library succeeds; an        *)
(* extraction that raised has left its fallback triple and a unification   *)
(* that raised has left the error graph.                                   *)
(***************************************************************************)
C2_AlwaysImageIfRenderWorks ==
    /\ (PipelineDone /\ AllRendersOk) => (result.kind = "return" /\ ~result.empty)
    /\ pc = "unify" =>
          \A i \in RaisedCalls("extract") :
             \E j \in DOMAIN all_triples :
                /\ all_triples[j][2] = Lit("is")
                /\ all_triples[j][3] = Lit("the main concept")
    /\ (pc = "render" /\ LastOutcome.kind = "raise") =>
          /\ WellFormed(concept_map)
          /\ EntriesOf(concept_map)[1][2][1][1] = Lit("Error")

\* extraction and unification both raised and an image is returned
C2_Witness ==
    /\ PipelineDone
    /\ AllRendersOk
    /\ RaisedCalls("extract") # {}
    /\ RaisedCalls("unify") # {}
    /\ result.kind = "return"
    /\ ~result.empty

\* the diagram of the triple ("Empty Input", "requires", "more content")
PlaceholderDiagram(style) ==
    [layout |-> Digraph(style).layout,
     nodes |-> << [id |-> NodeId(1), label |-> Lit("Empty Input"), style |-> "root"],
                  [id |-> NodeId(2), label |-> Lit("more content"), style |-> "child"] >>,
     edges |-> << <<NodeId(1), NodeId(2), Lit("requires")>> >>,
     same_rank |-> <<>>]

(***************************************************************************)
(* C3 as claimed: for input that is empty or shorter than 5 characters     *)
(* after trimming, generate_concept_map returns the diagram of the         *)
(* placeholder triple, whatever the text model returns or raises (the      *)
(* rendering library working).                                             *)
(***************************************************************************)
C3_Claim ==
    (PipelineDone /\ ShortInput(input_text) /\ AllRendersOk) =>
        result = Image(PlaceholderDiagram(layout_style))

(***************************************************************************)
(* Readers of a chunk and of a response, for the extractor's claims.       *)
(***************************************************************************)
\* how many times the character c occurs in t
RECURSIVE Occurrences(_, _)
Occurrences(t, c) ==
    IF t = <<>> THEN 0
    ELSE (IF Head(t)[1] = c THEN Head(t)[2] ELSE 0) + Occurrences(Tail(t), c)

\* the lines of a response that hold exactly three fields: two separators
ThreeFieldLines(response_text) ==
    SelectSeq(SplitOn(response_text, "\n", <<>>, <<>>),
              LAMBDA line : Occurrences(line, "|") = 2)

\* the chunk is empty or has fewer than 10 characters between its white space
ShortChunk(text) == text = <<>> \/ TLen(Strip(text)) < MinChunkChars

(***************************************************************************)
(* C11: for a chunk that is empty or whose trimmed length is below 10      *)
(* characters, extract_triples_from_text calls the model not at all and    *)
(* returns exactly the one triple ("Concept", "is", "Empty or too short"). *)
(***************************************************************************)
C11_ShortChunkNoCall ==
    (ExtractReturned /\ ShortChunk(input_text)) =>
        /\ calls = <<>>
        /\ all_triples = << Triple(Lit("Concept"), Lit("is"), Lit("Empty or too short")) >>

\* a chunk of ten characters or more of which fewer than ten are left by strip()
C11_Witness ==
    /\ ExtractReturned
    /\ ShortChunk(input_text)
    /\ TLen(input_text) >= MinChunkChars
    /\ calls = <<>>
    /\ Len(all_triples) = 1

(***************************************************************************)
(* C12: when the model is called for a chunk and its response has no line  *)
(* of exactly three fields, extract_triples_from_text returns exactly one  *)
(* triple, (the first up to three words of the chunk, "is related to",     *)
(* "the topic of interest"); otherwise it returns one triple per line of   *)
(* exactly three fields, lines of any other number of fields giving none.  *)
(***************************************************************************)
C12_FallbackFromLeadingWords ==
    (ExtractReturned /\ calls # <<>> /\ LastOutcome.kind = "text") =>
        IF ThreeFieldLines(LastOutcome.text) = <<>>
        THEN all_triples =
                << Triple(Join(FirstN(Words(input_text), 3), Lit(" ")),
                          Lit("is related to"), Lit("the topic of interest")) >>
        ELSE Len(all_triples) = Len(ThreeFieldLines(LastOutcome.text))

\* a response of a line of two fields and a line of four, for a chunk of four words
C12_Witness ==
    /\ ExtractReturned
    /\ calls # <<>>
    /\ LastOutcome.kind = "text"
    /\ ThreeFieldLines(LastOutcome.text) = <<>>
    /\ \E line \in Range(SplitOn(LastOutcome.text, "\n", <<>>, <<>>)) : Occurrences(line, "|") = 3
    /\ \E line \in Range(SplitOn(LastOutcome.text, "\n", <<>>, <<>>)) : Occurrences(line, "|") = 1
    /\ Len(Words(input_text)) > 3
    /\ Len(all_triples) = 1
    /\ all_triples[1][2] = Lit("is related to")

(***************************************************************************)
(* Readers of a text and of its chunks, for the chunker's claims.          *)
(***************************************************************************)
\* split_text_into_chunks has returned (SpecChunk)
ChunkReturned == pc = "chunked"

\* the sentences of a text, trimmed, the empty ones left out
Sentences(text) ==
    SelectSeq([i \in DOMAIN SplitSentences(Norm(text), "", <<>>, <<>>) |->
                  Strip(SplitSentences(Norm(text), "", <<>>, <<>>)[i])],
              LAMBDA sentence : sentence # <<>>)

\* the text without its white space
NoWhitespace(text) == Norm(SelectSeq(text, LAMBDA r : r[1] \notin Whitespace))

RECURSIVE Flatten(_)
Flatten(xss) == IF xss = <<>> THEN <<>> ELSE Head(xss) \o Flatten(Tail(xss))

\* the chunk is one sentence of the text, longer than max_length
SingleOversized(chunk) ==
    /\ TLen(chunk) > max_length
    /\ Sentences(chunk) = <<chunk>>

(***************************************************************************)
(* C13 as claimed: no chunk returned by split_text_into_chunks is longer   *)
(* than max_length characters, unless it consists of a single sentence     *)
(* that is itself longer than max_length.                                  *)
(***************************************************************************)
C13_Claim ==
    ChunkReturned =>
        \A i \in DOMAIN chunks :
            TLen(chunks[i]) <= max_length \/ SingleOversized(chunks[i])

(***************************************************************************)
(* C14: the chunks, joined in order, are the input up to white space, and  *)
(* the sentences of the chunks, in order, are the sentences of the input:  *)
(* none is lost, duplicated, reordered or cut in two.                      *)
(***************************************************************************)
C14_ChunksKeepSentences ==
    ChunkReturned =>
        /\ NoWhitespace(Flatten(chunks)) = NoWhitespace(input_text)
        /\ Flatten([i \in DOMAIN chunks |-> Sentences(chunks[i])]) = Sentences(input_text)

\* three sentences in two chunks, the second chunk holding two of them
C14_Witness ==
    /\ ChunkReturned
    /\ Len(Sentences(input_text)) = 3
    /\ Len(chunks) = 2
    /\ Len(Sentences(chunks[2])) = 2
    /\ Flatten([i \in DOMAIN chunks |-> Sentences(chunks[i])]) = Sentences(input_text)

\* generate_concept_map_svg returned the image of the graph it was given
GraphDrawn == SvgReturned /\ LastRender = <<"graph", "ok">>

(***************************************************************************)
(* C15 as claimed: with a layout style that is missing or is not one of    *)
(* hierarchical, radial, network, the graph is laid out as for             *)
(* "hierarchical".                                                         *)
(***************************************************************************)
C15_Original ==
    (GraphDrawn /\ layout_style \notin {"hierarchical", "radial", "network"}) =>
        result.dot.layout = "hierarchical"

(***************************************************************************)
(* C15 amended: a layout style that is not known is not an error.  The     *)
(* graph is laid out as for "hierarchical" when the style is missing or    *)
(* "hierarchical", as for "radial" when it is "radial", and as for         *)
(* "network" for every other style, known or not.                          *)
(***************************************************************************)
C15_UnknownStyleIsNetwork ==
    GraphDrawn =>
        /\ result.kind = "return"
        /\ result.dot.layout =
              IF layout_style \in {MissingStyle, "hierarchical"} THEN "hierarchical"
              ELSE IF layout_style = "radial" THEN "radial"
              ELSE "network"

\* a graph drawn with a style that is not known
C15_Witness ==
    /\ GraphDrawn
    /\ layout_style = "circular"
    /\ result.dot.nodes # <<>>
    /\ result.dot.layout = "network"

\* None, not an object, without 'concept_maps', or 'concept_maps' empty or not a list
InvalidGraph(cm) ==
    \/ ~IsDict(cm)
    \/ ~HasKey(cm[2], ConceptMapsKey)
    \/ ~IsList(Get(cm[2], ConceptMapsKey))
    \/ Get(cm[2], ConceptMapsKey)[2] = <<>>

\* the message of the ValueError raised for an invalid graph
InvalidGraphMessage(cm) ==
    IF ~IsDict(cm) \/ cm[2] = <<>> THEN "Invalid concept map data format"
    ELSE IF ~HasKey(cm[2], ConceptMapsKey) THEN "Missing 'concept_maps' key in the data"
    ELSE "'concept_maps' must be a non-empty list"

\* the image of the one-node diagram labelled with the message
IsErrorPlaceholder(image, message) ==
    /\ IsErrorDiagram(image)
    /\ image.dot.nodes[1].label = Concat(Lit("Error: "), Lit(message))

DrawingReturned == pc = "ocr_done"

\* generate_mind_map_from_ocr_results handed a graph of nodes and edges to the
\* renderer, and the rendering library did what it was asked every time
OcrGraphRendered ==
    /\ DrawingReturned
    /\ renders # <<>>
    /\ \A i \in DOMAIN renders : renders[i][2] = "ok"

NodesOf(cm) == Get(cm[2], K("nodes"))[2]

EdgesOf(cm) == Get(cm[2], K("edges"))[2]

(***************************************************************************)
(* C17: given a Render Graph {nodes: [...], edges: [...]} with at least    *)
(* one node, as the OCR front-end builds it from a successful extraction,  *)
(* the renderer accepts it and returns a diagram with one visual node per  *)
(* nodes entry and one edge per edges entry, not the error placeholder.    *)
(***************************************************************************)
C17_Claim ==
    (OcrGraphRendered /\ NodesOf(concept_map) # <<>>) =>
        /\ result.kind = "return"
        /\ ~IsErrorDiagram(result)
        /\ Len(result.dot.nodes) = Len(NodesOf(concept_map))
        /\ Len(result.dot.edges) = Len(EdgesOf(concept_map))

\* the extraction ran and process_drawing_for_concept_map has returned
Extracted == DrawingReturned /\ \E i \in DOMAIN calls : calls[i][2] = 1

\* what the vision model did when asked for the structure
VisionOutcome == calls[CHOOSE i \in DOMAIN calls : calls[i][2] = 1][3]

\* its response, cleaned of the fence and parsed
VisionParsed == JsonLoads(CleanOcrResponse(VisionOutcome.text))

RequiredKeys == {K("concepts"), K("relationships"), K("structure")}

\* a required key is missing from the object
MissingRequiredKey(v) == IsDict(v) /\ \E k \in RequiredKeys : ~HasKey(v[2], k)

\* the ids of the concepts of a result
DeclaredIds(d) ==
    {Get(Get(d, K("concepts"))[2][i][2], K("id")) : i \in DOMAIN Get(d, K("concepts"))[2]}

\* every relationship of a result joins two of its concepts
EndpointsDeclared(d) ==
    \A i \in DOMAIN Get(d, K("relationships"))[2] :
        /\ Get(Get(d, K("relationships"))[2][i][2], K("source")) \in DeclaredIds(d)
        /\ Get(Get(d, K("relationships"))[2][i][2], K("target")) \in DeclaredIds(d)

\* an object with the required keys, well-formed concepts and relationships,
\* and a relationship with an endpoint that is no declared concept id
UndeclaredEndpoint(v) ==
    /\ IsDict(v)
    /\ \A k \in RequiredKeys : HasKey(v[2], k)
    /\ IsList(Get(v[2], K("concepts")))
    /\ IsList(Get(v[2], K("relationships")))
    /\ \A i \in DOMAIN Get(v[2], K("concepts"))[2] :
          /\ IsDict(Get(v[2], K("concepts"))[2][i])
          /\ HasKey(Get(v[2], K("concepts"))[2][i][2], K("id"))
          /\ HasKey(Get(v[2], K("concepts"))[2][i][2], K("name"))
          /\ IsStr(Get(Get(v[2], K("concepts"))[2][i][2], K("id")))
    /\ \A i \in DOMAIN Get(v[2], K("relationships"))[2] :
          /\ IsDict(Get(v[2], K("relationships"))[2][i])
          /\ HasKey(Get(v[2], K("relationships"))[2][i][2], K("source"))
          /\ HasKey(Get(v[2], K("relationships"))[2][i][2], K("target"))
    /\ ~EndpointsDeclared(v[2])

\* the cases of C18: the call raised, the response is not JSON, or the JSON
\* misses a required key or names an endpoint that is not declared
ExtractionFailed ==
    /\ Extracted
    /\ \/ VisionOutcome.kind = "raise"
       \/ ~VisionParsed.ok
       \/ MissingRequiredKey(VisionParsed.val)
       \/ UndeclaredEndpoint(VisionParsed.val)

\* a result that reports an error and carries no structure
IsErrorResult(d, message) ==
    /\ HasKey(d, K("error"))
    /\ Get(d, K("error")) = JStr(Lit(message))
    /\ Get(d, K("concepts")) = JArr(<<>>)
    /\ Get(d, K("relationships")) = JArr(<<>>)
    /\ Get(d, K("structure")) = JObj(<< <<K("type"), JStr(Lit("unknown"))>> >>)

(***************************************************************************)
(* C18 as claimed: if the vision-model call raises, or its response is not *)
(* valid JSON, or the JSON fails shape validation (a required key missing, *)
(* or a relationship endpoint that is not a declared concept id),          *)
(* process_drawing_for_concept_map returns the fixed two-concept mock      *)
(* structure rather than an error result.                                  *)
(***************************************************************************)
C18_Original ==
    ExtractionFailed => ocr_return = create_mock_ocr_result(svg_content)

(***************************************************************************)
(* C18 amended: in these cases process_drawing_for_concept_map returns the *)
(* error result of the extraction unchanged, not the mock: a dictionary    *)
(* with the key 'error' ("Invalid JSON response" when the response is not  *)
(* JSON, "Failed to extract concepts" when the call raised or the shape    *)
(* is invalid), empty concepts and relationships and a structure of type   *)
(* 'unknown'; the renderer is not called.                                  *)
(***************************************************************************)
C18_ErrorResultReturned ==
    ExtractionFailed =>
        /\ ocr_return = ocr_results
        /\ ocr_return # create_mock_ocr_result(svg_content)
        /\ IsErrorResult(ocr_return,
                         IF VisionOutcome.kind = "text" /\ ~VisionParsed.ok
                         THEN "Invalid JSON response" ELSE "Failed to extract concepts")
        /\ renders = <<>>

\* a response naming an endpoint that is no concept, answered with the error
C18_Witness ==
    /\ Extracted
    /\ VisionOutcome.kind = "text"
    /\ VisionParsed.ok
    /\ UndeclaredEndpoint(VisionParsed.val)
    /\ IsErrorResult(ocr_return, "Failed to extract concepts")

\* the content starts, after white space, like SVG markup
LooksLikeSvg(t) ==
    \E i \in DOMAIN t : t[i] = "<svg" /\ \A j \in 1..(i - 1) : t[j] \in Whitespace

\* a PNG data URL whose payload is a PNG
DecodablePngUrl(t) ==
    Len(t) = 5 /\ SubSeq(t, 1, 4) = <<"data:", "image/png", ";base64", ",">>
               /\ t[5] = "b64_png"

\* an SVG data URL whose payload is base64
DecodableSvgUrl(t) ==
    Len(t) = 5 /\ SubSeq(t, 1, 4) = <<"data:", "image/svg+xml", ";base64", ",">>
               /\ t[5] # "not_b64"

\* a drawing that cannot be decoded: empty, or neither SVG markup nor a
\* decodable PNG or SVG data URL
Undecodable(t) ==
    t = <<>> \/ (~LooksLikeSvg(t) /\ ~DecodablePngUrl(t) /\ ~DecodableSvgUrl(t))

(***************************************************************************)
(* C19: for a drawing that cannot be decoded into an image (the empty      *)
(* string, content that is neither SVG markup nor a decodable PNG/SVG data *)
(* URL) process_drawing_for_concept_map does not raise and returns the     *)
(* fixed two-concept mock structure; the vision model is never asked.      *)
(***************************************************************************)
C19_UndecodableGivesMock ==
    (Undecodable(svg_content) /\ pc # "ocr_decode") =>
        /\ DrawingReturned
        /\ ocr_return = create_mock_ocr_result(svg_content)
        /\ calls = <<>>
        /\ img = "none"

\* content that is not empty and cannot be decoded, answered with the mock
C19_Witness ==
    /\ DrawingReturned
    /\ svg_content # <<>>
    /\ Undecodable(svg_content)
    /\ Get(ocr_return, K("concepts"))[2][1] = MockConcept("c1", "Concept 1", "First concept")
    /\ Get(ocr_return, K("image")) = <<"drawing", svg_content>>

\* the latest request and its response
LastRequest == log[Len(log)]

\* a create request the API accepts: a valid token and a body with a name
AcceptableCreate(e) ==
    e.method = "POST" /\ e.caller # NoUser /\ e.data # <<>> /\ HasKey(e.data, "name")

\* the map of request i was deleted by a later request
DeletedLater(i) ==
    \E j \in DOMAIN log : /\ j > i
                          /\ log[j].method = "DELETE"
                          /\ log[j].status = 200
                          /\ log[j].map_id = log[i].map_id

\* the ids a listing shows
ListedIds(e) == {e.listing[k].id : k \in DOMAIN e.listing}

(***************************************************************************)
(* C20: after any sequence of create requests by a user that the API       *)
(* accepts, GET on the collection returns a list of exactly the maps of    *)
(* that user that are not deleted: every such create was answered 201 and  *)
(* its map is listed unless it was deleted since (one create yields one    *)
(* more map in the list).                                                  *)
(***************************************************************************)
C20_Claim ==
    (log # <<>> /\ LastRequest.method = "GET" /\ LastRequest.caller # NoUser) =>
        /\ LastRequest.status = 200
        /\ ListedIds(LastRequest)
             = {maps[i].id : i \in {k \in DOMAIN maps :
                                       /\ maps[k].user_id = LastRequest.caller
                                       /\ ~maps[k].is_deleted}}
        /\ \A i \in DOMAIN log :
              (AcceptableCreate(log[i]) /\ log[i].caller = LastRequest.caller) =>
                  /\ log[i].status = 201
                  /\ log[i].map_id \in ListedIds(LastRequest) \/ DeletedLater(i)

\* the latest request is a PUT, by the owner, of a map that is not deleted,
\* with a name and a list of nodes
OwnerPutNameAndNodes ==
    /\ log # <<>>
    /\ LastRequest.method = "PUT"
    /\ LastRequest.caller # NoUser
    /\ \E i \in DOMAIN maps : /\ maps[i].id = LastRequest.map_id
                               /\ maps[i].user_id = LastRequest.caller
                               /\ ~maps[i].is_deleted
    /\ HasKey(LastRequest.data, "name")
    /\ HasKey(LastRequest.data, "nodes")

(***************************************************************************)
(* C21: a PUT on an existing, non-deleted map owned by the caller that     *)
(* supplies a name and a nodes list is answered 200, and the returned map  *)
(* has the new name and exactly the supplied nodes.                        *)
(***************************************************************************)
C21_Claim ==
    OwnerPutNameAndNodes =>
        /\ LastRequest.status = 200
        /\ Len(LastRequest.listing) = 1
        /\ LastRequest.listing[1].name = Get(LastRequest.data, "name")
        /\ LastRequest.listing[1].nodes = Get(LastRequest.data, "nodes")

\* an earlier request deleted the map of the latest request
DeletedBefore ==
    \E j \in 1..(Len(log) - 1) : /\ log[j].method = "DELETE"
                                 /\ log[j].status = 200
                                 /\ log[j].map_id = LastRequest.map_id

(***************************************************************************)
(* C22: after a successful DELETE of a concept map, every later GET of     *)
(* that map by its id, with a valid token, is answered 404, whatever       *)
(* requests came in between.                                               *)
(***************************************************************************)
C22_Claim ==
    (log # <<>> /\ LastRequest.method = "GET_ONE" /\ LastRequest.caller # NoUser
        /\ DeletedBefore) => LastRequest.status = 404

\* the row with this id
RowOf(map_id) == maps[CHOOSE i \in DOMAIN maps : maps[i].id = map_id]

\* the latest request, made with a valid token, was answered 200 and is about
\* a stored map of another user
AnsweredAboutForeignMap ==
    /\ log # <<>>
    /\ LastRequest.caller # NoUser
    /\ LastRequest.status = 200
    /\ LastRequest.method \in {"GET_ONE", "GET_SHARED", "PUT", "DELETE", "SHARE"}
    /\ \E i \in DOMAIN maps : maps[i].id = LastRequest.map_id
    /\ RowOf(LastRequest.map_id).user_id # LastRequest.caller

(***************************************************************************)
(* C30: after any sequence of create, update, share and delete requests, a *)
(* user with a valid token who does not own a concept map obtains its      *)
(* contents only while the map is public and not deleted, never sees it in *)
(* the list of maps, and never updates, deletes or shares it.              *)
(***************************************************************************)
C30_Claim ==
    /\ AnsweredAboutForeignMap =>
          /\ LastRequest.method \in {"GET_ONE", "GET_SHARED"}
          /\ RowOf(LastRequest.map_id).is_public
          /\ ~RowOf(LastRequest.map_id).is_deleted
    /\ (log # <<>> /\ LastRequest.method = "GET" /\ LastRequest.status = 200) =>
          \A k \in DOMAIN LastRequest.listing :
              LastRequest.listing[k].user_id = LastRequest.caller

\* the positions in calls of the calls of a stage
CallsOf(stage) == {i \in DOMAIN calls : calls[i][1] = stage}

\* the extractor's calls go through the chunks in order, one call at most
\* for a chunk, and none comes after a call of the unifier
ExtractionsInOrder ==
    /\ \A i \in CallsOf("extract") : calls[i][2] \in 1..Len(chunks)
    /\ \A i, j \in CallsOf("extract") : i < j => calls[i][2] < calls[j][2]
    /\ \A i \in CallsOf("extract"), j \in CallsOf("unify") : i < j

\* what the model answered for chunk k; a chunk too short to be sent has no answer
OutcomeFor(k) ==
    IF \E i \in CallsOf("extract") : calls[i][2] = k
    THEN calls[CHOOSE i \in CallsOf("extract") : calls[i][2] = k][3]
    ELSE Raises

\* the triples of the first k chunks, in the order of the chunks
RECURSIVE TriplesUpTo(_)
TriplesUpTo(k) ==
    IF k = 0 THEN <<>>
    ELSE TriplesUpTo(k - 1) \o extract_triples_from_text(chunks[k], OutcomeFor(k))

\* the main rendering raised, so the except branch of generate_concept_map ran
HandlerEntered ==
    pc \in {"handler", "handler_render"}
    \/ (pc = "done" /\ \E i \in DOMAIN renders : renders[i] = <<"error", "raise">>)

(***************************************************************************)
(* C23 as claimed: in a run of generate_concept_map on input of at least 5 *)
(* characters, input of at most 12000 characters is one chunk and longer   *)
(* input is split by the chunker; the extractor makes at most one model    *)
(* call per chunk, in chunk order; the unifier's model call happens        *)
(* exactly once and only after the last extraction; so the run makes at    *)
(* most (number of chunks + 1) model calls.                                *)
(***************************************************************************)
C23_Original ==
    (PipelineDone /\ TLen(input_text) >= MinInputChars) =>
        /\ TLen(input_text) <= ChunkThreshold => Len(chunks) = 1
        /\ TLen(input_text) > ChunkThreshold =>
              chunks = split_text_into_chunks(input_text, DefaultMaxLength)
        /\ ExtractionsInOrder
        /\ Cardinality(CallsOf("unify")) = 1
        /\ Len(calls) <= Len(chunks) + 1

(***************************************************************************)
(* C23 amended: in a run of generate_concept_map on input of at least 5    *)
(* characters after trimming, input of at most 12000 characters (untrimmed)*)
(* is the one chunk and longer input is split by the chunker; the          *)
(* extractor makes at most one model call per chunk, in chunk order, and   *)
(* the triples are concatenated in chunk order; the unifier is called once *)
(* after the last extraction, and once more by the except branch when the  *)
(* renderer raised; so the run makes at most (number of chunks + 1) model  *)
(* calls when the renderer does not raise and (number of chunks + 2)       *)
(* otherwise.  Shorter input has no chunk and no extraction.               *)
(***************************************************************************)
C23_SequentialCalls ==
    /\ (pc # "start" /\ ~ShortInput(input_text)) =>
          /\ TLen(input_text) <= ChunkThreshold => chunks = <<input_text>>
          /\ TLen(input_text) > ChunkThreshold =>
                chunks = split_text_into_chunks(input_text, DefaultMaxLength)
          /\ ExtractionsInOrder
          /\ pc = "extract" =>
                (all_triples = TriplesUpTo(ci - 1) /\ CallsOf("unify") = {})
          /\ pc # "extract" =>
                /\ ci = Len(chunks) + 1
                /\ all_triples = IF TriplesUpTo(Len(chunks)) = <<>>
                                  THEN NoTriplesFallback(input_text)
                                  ELSE TriplesUpTo(Len(chunks))
          /\ Cardinality(CallsOf("unify"))
                = IF pc \in {"extract", "unify"} THEN 0
                  ELSE IF pc = "handler_render" \/ (pc = "done" /\ HandlerEntered) THEN 2
                  ELSE 1
          /\ Len(calls) <= Len(chunks) + (IF HandlerEntered THEN 2 ELSE 1)
    /\ ShortInput(input_text) => (chunks = <<>> /\ CallsOf("extract") = {})

\* two chunks, a call for each, and the unifier called twice
C23_Witness ==
    /\ PipelineDone
    /\ Len(chunks) = 2
    /\ Cardinality(CallsOf("extract")) = 2
    /\ Cardinality(CallsOf("unify")) = 2
    /\ Len(calls) = Len(chunks) + 2

(***************************************************************************)
(* Triples whose relations form a cycle: some concept is reached from      *)
(* itself by following subject -> object.                                  *)
(***************************************************************************)
Successors(triples, S) ==
    S \cup {triples[i][3] : i \in {j \in DOMAIN triples : triples[j][1] \in S}}

RECURSIVE ReachFrom(_, _, _)
ReachFrom(triples, S, n) ==
    IF n = 0 THEN S ELSE ReachFrom(triples, Successors(triples, S), n - 1)

Cyclic(triples) ==
    \E i \in DOMAIN triples :
        triples[i][1] \in ReachFrom(triples, {triples[i][3]}, Len(triples))

SubjectsOf(triples) == {triples[i][1] : i \in DOMAIN triples}

NamesOf(triples) == SubjectsOf(triples) \cup {triples[i][3] : i \in DOMAIN triples}

\* the unifier has returned for a cyclic triple list
CyclicUnified == Cyclic(all_triples) /\ calls # <<>>

\* ... and its graph was rebuilt from the triples, the response not being JSON
CyclicFallback == CyclicUnified /\ LastOutcome.kind = "text" /\ ~LastParsed.ok

SubjectsAreKeys ==
    /\ HasConceptMaps(concept_map)
    /\ IsList(Get(concept_map[2], ConceptMapsKey))
    /\ \A s \in SubjectsOf(all_triples) : EntriesKeyed(concept_map, s) # {}

\* generate_concept_map_svg has returned or raised
RenderReturned == pc \in {"done", "handler"} /\ renders # <<>>

(***************************************************************************)
(* C24 as claimed: for a triple list whose relations form a cycle, every   *)
(* subject of an input triple is a key of the graph the unifier returns.   *)
(***************************************************************************)
C24_Original == CyclicUnified => SubjectsAreKeys

(***************************************************************************)
(* C24 amended: for a triple list whose relations form a cycle, the        *)
(* unifier returns; when the model's response is not parseable JSON, every *)
(* subject of an input triple is a key of the graph returned, and          *)
(* build_graph makes of it a graph of one node per concept named by the    *)
(* triples, each concept visited once.  A graph taken from the response,   *)
(* or the graph returned when the call raises, need not have the subjects  *)
(* as keys.                                                                *)
(***************************************************************************)
C24_CyclicInputTerminates ==
    /\ [](CyclicFallback =>
            /\ SubjectsAreKeys
            /\ ~build_graph(EntriesOf(concept_map), "hierarchical").raised
            /\ Len(Drawn(concept_map).nodes) = Cardinality(NamesOf(all_triples)))
    /\ (Cyclic(all_triples) /\ pc = "unify") ~> (pc = "render" /\ calls # <<>>)

\* A -r-> B, B -r-> A, regrouped by subject and drawn as two nodes, two edges
C24_Witness ==
    /\ RenderReturned
    /\ CyclicFallback
    /\ all_triples = << Triple(A, Rel1, B), Triple(B, Rel1, A) >>
    /\ SubjectsAreKeys
    /\ LastRender = <<"graph", "ok">>
    /\ Len(result.dot.nodes) = 2
    /\ Len(result.dot.edges) = 2

(***************************************************************************)
(* What build_graph makes of a graph whose relation values are lists of    *)
(* concept names.                                                          *)
(***************************************************************************)
\* the keys of the entries
KeyNames(cm) ==
    UNION { {EntriesOf(cm)[i][2][j][1] : j \in DOMAIN EntriesOf(cm)[i][2]} :
            i \in DOMAIN EntriesOf(cm) }

\* the concept names: the keys and the elements of the relation lists
ConceptNames(cm) == KeyNames(cm) \cup {EdgeAt(cm, x)[3] : x \in EdgeSlots(cm)}

RelationNames(cm) == {EdgeAt(cm, x)[2] : x \in EdgeSlots(cm)}

\* the graph was drawn from a graph of lists of names (SpecRender)
ListGraphDrawn == GraphDrawn /\ WellFormed(concept_map)

\* f names the node of every concept: a node of its own, labelled with the
\* name (with the node id if the name is empty)
NodePerConcept(d, names, f) ==
    /\ \A m, n \in names : m # n => f[m] # f[n]
    /\ \A n \in names :
          \E i \in DOMAIN d.nodes :
             /\ d.nodes[i].id = f[n]
             /\ d.nodes[i].label = (IF n = EmptyStr THEN f[n] ELSE n)

\* as many edges f[s] -> f[o] labelled r as list elements o under s, r
EdgePerElement(d, cm, f) ==
    /\ Len(d.edges) = Cardinality(EdgeSlots(cm))
    /\ \A s \in ConceptNames(cm), o \in ConceptNames(cm), r \in RelationNames(cm) :
          Cardinality({k \in DOMAIN d.edges : d.edges[k] = <<f[s], f[o], r>>})
             = EdgeCount(cm, Triple(s, r, o))

(***************************************************************************)
(* C25: for a graph whose relation values are lists of concept names,      *)
(* build_graph creates exactly one node per distinct concept name that is  *)
(* a key or a list element, distinct names having distinct node ids and a  *)
(* name met again reusing its id, and exactly one edge parent -> child     *)
(* labelled with the relation for every element of every relation list.    *)
(***************************************************************************)
C25_OneNodePerConcept ==
    ListGraphDrawn =>
        LET d == result.dot
            names == ConceptNames(concept_map)
            ids == {d.nodes[i].id : i \in DOMAIN d.nodes}
        IN  /\ Len(d.nodes) = Cardinality(names)
            /\ Cardinality(ids) = Len(d.nodes)
            /\ \E f \in [names -> ids] :
                  /\ NodePerConcept(d, names, f)
                  /\ EdgePerElement(d, concept_map, f)

\* A is the key of two entries and an element of its own list: two nodes,
\* three edges, one of them A -> A
C25_Witness ==
    /\ ListGraphDrawn
    /\ concept_map = Graph(<< Entry(A, Rels(Rel1, <<B, A>>)), Entry(A, Rels(Rel2, <<B>>)) >>)
    /\ Len(result.dot.nodes) = 2
    /\ Len(result.dot.edges) = 3
    /\ \E k \in DOMAIN result.dot.edges : result.dot.edges[k][1] = result.dot.edges[k][2]

\* the nodes of d drawn with the attributes of a root (light blue, bold)
RootStyled(d) == {i \in DOMAIN d.nodes : d.nodes[i].style = "root"}

\* node i is the child of another node: some edge leads to it from elsewhere
ChildOfAnother(d, i) ==
    \E k \in DOMAIN d.edges :
        d.edges[k][2] = d.nodes[i].id /\ d.edges[k][1] # d.nodes[i].id

(***************************************************************************)
(* C26: in every graph the renderer builds, the style of a root concept is *)
(* given to no other node: a node that is directly connected to another    *)
(* concept as its child (primary), or lies further away (secondary), is    *)
(* not drawn as a root.                                                    *)
(***************************************************************************)
C26_Claim ==
    ListGraphDrawn => \A i \in RootStyled(result.dot) : ~ChildOfAnother(result.dot, i)

\* the extraction returned a result without the key 'error'
ExtractionAccepted ==
    /\ pc \in {"ocr_finish", "ocr_done"}
    /\ ocr_results # <<>>
    /\ ~HasKey(ocr_results, K("error"))

\* process_drawing_for_concept_map returned a result without the key 'error'
DrawingAccepted == DrawingReturned /\ ~HasKey(ocr_return, K("error"))

(***************************************************************************)
(* C27: in every extraction result that the OCR front-end accepts (the     *)
(* extraction returns it without an 'error' key, and it is handed to the   *)
(* renderer and returned), and in the mock result too, the source and the  *)
(* target of each relationship are ids of concepts declared in the same    *)
(* result.                                                                 *)
(***************************************************************************)
C27_EndpointsDeclared ==
    /\ ExtractionAccepted => EndpointsDeclared(ocr_results)
    /\ DrawingAccepted => EndpointsDeclared(ocr_return)
    /\ EndpointsDeclared(create_mock_ocr_result(svg_content))

\* the result with the relationships c1 -> c2 and c2 -> c1 was accepted,
\* handed to the renderer and returned with the image
C27_Witness ==
    /\ DrawingAccepted
    /\ ExtractionAccepted
    /\ renders # <<>>
    /\ Get(ocr_return, K("image"))[1] = "image"
    /\ Len(Get(ocr_return, K("relationships"))[2]) = 2
    /\ DeclaredIds(ocr_return) = {JStr(Lit("c1")), JStr(Lit("c2"))}

(***************************************************************************)
(* The conversion stages of process_svg_for_ocr.                           *)
(***************************************************************************)
StageOrder == <<"cairosvg", "rsvg-convert", "blank">>

\* SVG input: SVG markup or an SVG data URL, which reaches the converters
SvgInput(t) ==
    /\ ~(StartsWith(t, PngPrefix) /\ LoadPng(t))
    /\ SvgBytes(t) # "raise"

\* process_svg_for_ocr has returned or raised for SVG input
SvgConverted == SvgInput(svg_content) /\ pc # "ocr_decode"

\* the stages were tried in order, each after the failure of the one before
TriedInOrder ==
    /\ stages # <<>>
    /\ Len(stages) <= Len(StageOrder)
    /\ \A i \in DOMAIN stages : stages[i][1] = StageOrder[i]
    /\ \A i \in 1..(Len(stages) - 1) : stages[i][2] # "ok"

LastStage == stages[Len(stages)]

\* CairoSVG and rsvg-convert were both tried and neither gave an image
BothConvertersFailed ==
    /\ Len(stages) >= 2
    /\ stages[1][2] # "ok"
    /\ stages[2][2] # "ok"

(***************************************************************************)
(* C28 as claimed: for SVG input the stages are tried strictly in order,   *)
(* the first that succeeds supplies the returned image, and the failure of *)
(* both converters yields the labelled blank image, not an exception.      *)
(***************************************************************************)
C28_Original ==
    SvgConverted =>
        /\ TriedInOrder
        /\ LastStage[2] = "ok"
        /\ img = (IF LastStage[1] = "blank" THEN "notice" ELSE "drawing")
        /\ BothConvertersFailed => img = "notice"

(***************************************************************************)
(* C28 amended: for SVG input rsvg-convert is tried only after CairoSVG    *)
(* failed or is not installed, the blank image is drawn only after both    *)
(* failed, and the first stage that succeeds supplies the returned image;  *)
(* when both converters failed the labelled blank image is returned,       *)
(* unless drawing it raises too: then process_svg_for_ocr raises           *)
(* ValueError, which process_drawing_for_concept_map answers with the      *)
(* mock result.                                                            *)
(***************************************************************************)
C28_StagesInOrder ==
    SvgConverted =>
        /\ TriedInOrder
        /\ LastStage[2] = "ok" =>
              img = (IF LastStage[1] = "blank" THEN "notice" ELSE "drawing")
        /\ LastStage[2] # "ok" =>
              /\ LastStage[1] = "blank"
              /\ img = "none"
              /\ DrawingReturned
              /\ ocr_return = create_mock_ocr_result(svg_content)
        /\ BothConvertersFailed => Len(stages) = 3

\* CairoSVG is not installed, rsvg-convert fails, the blank image is returned
C28_Witness ==
    /\ SvgConverted
    /\ stages = << <<"cairosvg", "missing">>, <<"rsvg-convert", "raise">>, <<"blank", "ok">> >>
    /\ img = "notice"
    /\ pc = "ocr_model"

(***************************************************************************)
(* C29: for non-empty input text split_text_into_chunks emits no empty     *)
(* chunk: every chunk returned holds at least one sentence, also when the  *)
(* first sentence alone is longer than max_length.                         *)
(***************************************************************************)
C29_Claim ==
    (ChunkReturned /\ Sentences(input_text) # <<>>) =>
        \A i \in DOMAIN chunks : chunks[i] # EmptyStr /\ Sentences(chunks[i]) # <<>>

====
